---- MODULE Spec2Model ----
(***************************************************************************)
(* The todo store of justdoit (package todo): the TodoList with its        *)
(* mutations Add, Insert, Delete, Toggle, Update and Sort, and its         *)
(* persistence Save (write a temp file, rename it over the target) and     *)
(* Load (read, decode, back a corrupted file up).                          *)
(*                                                                         *)
(* A file is a sequence of JSON tokens, each token a sequence of symbols;  *)
(* the white space of MarshalIndent, which no decoder reads, is left out.  *)
(* Titles are valid UTF-8 text: they are typed as key runes or decoded     *)
(* from JSON.                                                              *)
(*                                                                         *)
(* A call to the operating system fails in the model where the code tests  *)
(* its error: CreateTemp, Write, Close and Rename in Save, ReadFile and    *)
(* the WriteFile of the backup in Load. os.Remove of the temp file, whose  *)
(* error the code drops, removes the file.                                 *)
(***************************************************************************)
EXTENDS Integers, Sequences, FiniteSets, TLC

----------------------------------------------------------------------------
(* Bounds of the model *)

\* Most items a list holds.
MaxLen == 2
\* Largest id a mutation assigns.
MaxID == 2
\* Most Saves that fail one after the other.
MaxFail == 1
\* Most items of a store that was loaded in any order.
MaxAny == 4

\* Most temp files that exist in the directory at once.
MaxTmp == 2

\* Most characters of an input of the UI.
MaxInput == 1

\* Most keys pressed in a run of the UI.
MaxKeys == 9

----------------------------------------------------------------------------
(* Data *)

\* No file at a path.
NoFile == <<<<"ENOENT">>>>

\* The titles typed in the mutation runs; a word stands for its letters, which
\* json writes and reads as they are.
BuyMilk == <<"buy", " ", "milk">>
WalkDog == <<"walk", " ", "dog">>
Titles == {BuyMilk, WalkDog}

\* time.Time: the wall clock instant, and whether a monotonic reading is kept.
Time(sec, mono) == [sec |-> sec, mono |-> mono]
ZeroTime == Time(0, FALSE)

Todo(id, title, completed, createdAt) ==
    [ID |-> id, Title |-> title, Completed |-> completed, CreatedAt |-> createdAt]
ZeroTodo == Todo(0, <<>>, FALSE, ZeroTime)

\* TodoList without its path: Nil tells a nil Todos slice from an empty one.
TodoList(todos, isNil, nextID) == [Todos |-> todos, Nil |-> isNil, NextID |-> nextID]

----------------------------------------------------------------------------
(* encoding/json, as Save and Load use it *)

Digit(n) == <<"0", "1", "2", "3", "4", "5", "6", "7", "8", "9">>[n + 1]
DigitSyms == {"0", "1", "2", "3", "4", "5", "6", "7", "8", "9"}
DigitVal(c) == CHOOSE n \in 0..9 : Digit(n) = c

RECURSIVE Digits(_)
Digits(n) == IF n < 10 THEN <<Digit(n)>> ELSE Digits(n \div 10) \o <<Digit(n % 10)>>

\* A wrong NumTok: the sign is not written.
NumTokAbs(n) == IF n < 0 THEN Digits(-n) ELSE Digits(n)

\* An int as json writes it.
NumTok(n) == IF n < 0 THEN <<"-">> \o Digits(-n) ELSE Digits(n)

\* A string symbol as json writes it: quote and backslash behind a backslash,
\* and < as the escape u003c (json escapes HTML by default).
EscapeSym(c) ==
    CASE c = "\"" -> <<"\\", "\"">>
      [] c = "\\" -> <<"\\", "\\">>
      [] c = "<" -> <<"\\", "u", "0", "0", "3", "c">>
      [] OTHER -> <<c>>

RECURSIVE Escape(_)
Escape(s) == IF s = <<>> THEN <<>> ELSE EscapeSym(Head(s)) \o Escape(Tail(s))

StrTok(s) == <<"\"">> \o Escape(s) \o <<"\"">>

BoolTok(b) == IF b THEN <<"true">> ELSE <<"false">>

\* time.Time.MarshalJSON: RFC 3339; the monotonic reading is not written.
TimeText(t) == <<"T">> \o Digits(t.sec) \o <<"Z">>
TimeTok(t) == StrTok(TimeText(t))

Key(name) == <<StrTok(name), <<":">>>>

MarshalTodo(t) ==
    <<<<"{">>>> \o Key(<<"id">>) \o <<NumTok(t.ID)>> \o <<<<",">>>>
      \o Key(<<"title">>) \o <<StrTok(t.Title)>> \o <<<<",">>>>
      \o Key(<<"completed">>) \o <<BoolTok(t.Completed)>> \o <<<<",">>>>
      \o Key(<<"created_at">>) \o <<TimeTok(t.CreatedAt)>> \o <<<<"}">>>>

RECURSIVE MarshalTodos(_)
MarshalTodos(todos) ==
    IF todos = <<>> THEN <<>>
    ELSE MarshalTodo(Head(todos))
           \o (IF Tail(todos) = <<>> THEN <<>> ELSE <<<<",">>>>)
           \o MarshalTodos(Tail(todos))

\* json.MarshalIndent(tl): the exported fields, in declaration order.
Marshal(tl) ==
    <<<<"{">>>> \o Key(<<"todos">>)
      \o (IF tl.Nil THEN <<<<"null">>>>
          ELSE <<<<"[">>>> \o MarshalTodos(tl.Todos) \o <<<<"]">>>>)
      \o <<<<",">>>> \o Key(<<"next_id">>) \o <<NumTok(tl.NextID)>> \o <<<<"}">>>>

----------------------------------------------------------------------------
(* Reading tokens back *)

HexSyms == DigitSyms \cup {"a", "b", "c", "d", "e", "f"}

Drop(s, n) == SubSeq(s, n + 1, Len(s))

IsDigits(s) ==
    /\ Len(s) >= 1
    /\ \A k \in 1..Len(s) : s[k] \in DigitSyms
    /\ (Len(s) > 1 => s[1] # "0")

IsNum(tok) ==
    IF Len(tok) >= 1 /\ tok[1] = "-" THEN IsDigits(Tail(tok)) ELSE IsDigits(tok)

RECURSIVE DigitsVal(_)
DigitsVal(s) ==
    IF Len(s) = 1 THEN DigitVal(s[1])
    ELSE 10 * DigitsVal(SubSeq(s, 1, Len(s) - 1)) + DigitVal(s[Len(s)])

NumVal(tok) == IF tok[1] = "-" THEN 0 - DigitsVal(Tail(tok)) ELSE DigitsVal(tok)

\* The inside of a string literal: no bare quote, every backslash opens an escape.
RECURSIVE ValidBody(_)
ValidBody(s) ==
    IF s = <<>> THEN TRUE
    ELSE IF Head(s) = "\"" THEN FALSE
    ELSE IF Head(s) = "\\" THEN
        /\ Len(s) >= 2
        /\ \/ s[2] \in {"\"", "\\"} /\ ValidBody(Drop(s, 2))
           \/ /\ s[2] = "u"
              /\ Len(s) >= 6
              /\ \A k \in 3..6 : s[k] \in HexSyms
              /\ ValidBody(Drop(s, 6))
    ELSE ValidBody(Tail(s))

IsStr(tok) ==
    /\ Len(tok) >= 2
    /\ tok[1] = "\""
    /\ tok[Len(tok)] = "\""
    /\ ValidBody(SubSeq(tok, 2, Len(tok) - 1))

\* Of the u escapes only u003c is ever written; any other decodes to a rune
\* the titles do not use.
RECURSIVE Unescape(_)
Unescape(s) ==
    IF s = <<>> THEN <<>>
    ELSE IF Head(s) = "\\" THEN
        IF s[2] = "u"
        THEN <<(IF SubSeq(s, 3, 6) = <<"0", "0", "3", "c">> THEN "<" ELSE "?")>>
               \o Unescape(Drop(s, 6))
        ELSE <<s[2]>> \o Unescape(Drop(s, 2))
    ELSE <<Head(s)>> \o Unescape(Tail(s))

StrVal(tok) == Unescape(SubSeq(tok, 2, Len(tok) - 1))

\* A JSON value: t is its kind, n a number or a boolean (0, 1), s a string,
\* a the elements of an array or the members [k, v] of an object.
JV(t, n, s, a) == [t |-> t, n |-> n, s |-> s, a |-> a]
JNull == JV("null", 0, <<>>, <<>>)

PR(ok, v, i) == [ok |-> ok, v |-> v, i |-> i]
PFail == PR(FALSE, JNull, 0)

RECURSIVE ParseValue(_, _), ParseElems(_, _, _), ParseMembers(_, _, _)

\* The value that starts at token i, and the index after it.
ParseValue(toks, i) ==
    IF i > Len(toks) THEN PFail
    ELSE LET tok == toks[i] IN
         CASE tok = <<"null">> -> PR(TRUE, JNull, i + 1)
           [] tok = <<"true">> -> PR(TRUE, JV("bool", 1, <<>>, <<>>), i + 1)
           [] tok = <<"false">> -> PR(TRUE, JV("bool", 0, <<>>, <<>>), i + 1)
           [] tok = <<"[">> ->
                IF i + 1 <= Len(toks) /\ toks[i + 1] = <<"]">>
                THEN PR(TRUE, JV("arr", 0, <<>>, <<>>), i + 2)
                ELSE ParseElems(toks, i + 1, <<>>)
           [] tok = <<"{">> ->
                IF i + 1 <= Len(toks) /\ toks[i + 1] = <<"}">>
                THEN PR(TRUE, JV("obj", 0, <<>>, <<>>), i + 2)
                ELSE ParseMembers(toks, i + 1, <<>>)
           [] OTHER ->
                IF IsNum(tok) THEN PR(TRUE, JV("num", NumVal(tok), <<>>, <<>>), i + 1)
                ELSE IF IsStr(tok) THEN PR(TRUE, JV("str", 0, StrVal(tok), <<>>), i + 1)
                ELSE PFail

ParseElems(toks, i, acc) ==
    LET r == ParseValue(toks, i) IN
    IF ~r.ok \/ r.i > Len(toks) THEN PFail
    ELSE IF toks[r.i] = <<",">> THEN ParseElems(toks, r.i + 1, Append(acc, r.v))
    ELSE IF toks[r.i] = <<"]">> THEN PR(TRUE, JV("arr", 0, <<>>, Append(acc, r.v)), r.i + 1)
    ELSE PFail

ParseMembers(toks, i, acc) ==
    IF i + 1 > Len(toks) \/ ~IsStr(toks[i]) \/ toks[i + 1] # <<":">> THEN PFail
    ELSE LET r == ParseValue(toks, i + 2)
             m == [k |-> StrVal(toks[i]), v |-> r.v]
         IN  IF ~r.ok \/ r.i > Len(toks) THEN PFail
             ELSE IF toks[r.i] = <<",">> THEN ParseMembers(toks, r.i + 1, Append(acc, m))
             ELSE IF toks[r.i] = <<"}">>
                  THEN PR(TRUE, JV("obj", 0, <<>>, Append(acc, m)), r.i + 1)
             ELSE PFail

\* checkValid: the whole input is one JSON value.
ParseDoc(data) ==
    LET r == ParseValue(data, 1) IN
    IF r.ok /\ r.i = Len(data) + 1 THEN r ELSE PFail

----------------------------------------------------------------------------
(* json.Unmarshal(data, tl) *)

\* A decoding step: the value so far, the first type error saved ("none" when
\* there is none), and whether an Unmarshaler's error has stopped the decoding.
DR(val, err, abort) == [val |-> val, err |-> err, abort |-> abort]

FirstErr(old, new) == IF old = "none" THEN new ELSE old

\* The text of an RFC 3339 instant, as TimeText writes it.
IsTimeText(s) ==
    /\ Len(s) >= 3
    /\ s[1] = "T"
    /\ s[Len(s)] = "Z"
    /\ IsDigits(SubSeq(s, 2, Len(s) - 1))

\* time.Time.UnmarshalJSON: null is skipped; anything but a well-formed
\* instant is an error, which stops the decoding.
DecodeTime(v, cur) ==
    IF v.t = "null" THEN DR(cur, "none", FALSE)
    ELSE IF v.t = "str" /\ IsTimeText(v.s)
         THEN DR(Time(DigitsVal(SubSeq(v.s, 2, Len(v.s) - 1)), FALSE), "none", FALSE)
    ELSE DR(cur, "time", TRUE)

\* One member of a Todo object, into the Todo decoded so far. A value of the
\* wrong kind is saved as a type error and skipped; an unknown key is skipped.
DecodeTodoField(m, d) ==
    LET t == d.val IN
    CASE m.k = <<"id">> ->
           IF m.v.t = "null" THEN d
           ELSE IF m.v.t = "num" THEN DR([t EXCEPT !.ID = m.v.n], d.err, FALSE)
           ELSE DR(t, FirstErr(d.err, "type"), FALSE)
      [] m.k = <<"title">> ->
           IF m.v.t = "null" THEN d
           ELSE IF m.v.t = "str" THEN DR([t EXCEPT !.Title = m.v.s], d.err, FALSE)
           ELSE DR(t, FirstErr(d.err, "type"), FALSE)
      [] m.k = <<"completed">> ->
           IF m.v.t = "null" THEN d
           ELSE IF m.v.t = "bool" THEN DR([t EXCEPT !.Completed = (m.v.n = 1)], d.err, FALSE)
           ELSE DR(t, FirstErr(d.err, "type"), FALSE)
      [] m.k = <<"created_at">> ->
           LET r == DecodeTime(m.v, t.CreatedAt) IN
           DR([t EXCEPT !.CreatedAt = r.val], FirstErr(d.err, r.err), r.abort)
      [] OTHER -> d

RECURSIVE DecodeTodoMembers(_, _, _)
DecodeTodoMembers(ms, k, d) ==
    IF k > Len(ms) \/ d.abort THEN d
    ELSE DecodeTodoMembers(ms, k + 1, DecodeTodoField(ms[k], d))

\* One element of the todos array, into a zero Todo.
DecodeTodo(v) ==
    IF v.t = "null" THEN DR(ZeroTodo, "none", FALSE)
    ELSE IF v.t = "obj" THEN DecodeTodoMembers(v.a, 1, DR(ZeroTodo, "none", FALSE))
    ELSE DR(ZeroTodo, "type", FALSE)

\* The elements of the array, appended one by one; d.val is the slice so far.
RECURSIVE DecodeElems(_, _, _)
DecodeElems(es, k, d) ==
    IF k > Len(es) \/ d.abort THEN d
    ELSE LET r == DecodeTodo(es[k]) IN
         DecodeElems(es, k + 1,
                     DR(Append(d.val, r.val), FirstErr(d.err, r.err), r.abort))

\* One member of the document, into the TodoList decoded so far.
DecodeListField(m, d) ==
    LET tl == d.val IN
    CASE m.k = <<"todos">> ->
           IF m.v.t = "null" THEN DR([tl EXCEPT !.Todos = <<>>, !.Nil = TRUE], d.err, FALSE)
           ELSE IF m.v.t = "arr" THEN
               LET r == DecodeElems(m.v.a, 1, DR(<<>>, "none", FALSE)) IN
               DR([tl EXCEPT !.Todos = r.val, !.Nil = FALSE], FirstErr(d.err, r.err), r.abort)
           ELSE DR(tl, FirstErr(d.err, "type"), FALSE)
      [] m.k = <<"next_id">> ->
           IF m.v.t = "null" THEN d
           ELSE IF m.v.t = "num" THEN DR([tl EXCEPT !.NextID = m.v.n], d.err, FALSE)
           ELSE DR(tl, FirstErr(d.err, "type"), FALSE)
      [] OTHER -> d

RECURSIVE DecodeListMembers(_, _, _)
DecodeListMembers(ms, k, d) ==
    IF k > Len(ms) \/ d.abort THEN d
    ELSE DecodeListMembers(ms, k + 1, DecodeListField(ms[k], d))

\* json.Unmarshal(data, tl), tl holding no elements yet: a syntax error leaves
\* tl as it is; otherwise the members are stored in their order, and what was
\* stored before an error stays.
Unmarshal(data, tl) ==
    LET p == ParseDoc(data) IN
    IF ~p.ok THEN [tl |-> tl, err |-> "syntax"]
    ELSE IF p.v.t = "null" THEN [tl |-> tl, err |-> "none"]
    ELSE IF p.v.t # "obj" THEN [tl |-> tl, err |-> "type"]
    ELSE LET r == DecodeListMembers(p.v.a, 1, DR(tl, "none", FALSE)) IN
         [tl |-> r.val, err |-> r.err]

----------------------------------------------------------------------------
(* The directory of the store's file *)

TmpNames == 1..MaxTmp

\* The target path, path + ".corrupted", and the .tui_todo_*.tmp files.
FS(target, corrupted, tmp) == [target |-> target, corrupted |-> corrupted, tmp |-> tmp]
NoTmp == [n \in TmpNames |-> NoFile]
EmptyDir == FS(NoFile, NoFile, NoTmp)

\* os.CreateTemp: a new empty file under a name not in use.
CreateTemp(dir, name) == [dir EXCEPT !.tmp[name] = <<>>]

\* A wrong WriteTemp: the bytes go to the target path itself.
WriteInPlace(dir, name, data, n) == [dir EXCEPT !.target = SubSeq(data, 1, n)]

\* tmpFile.Write: the bytes that reached the file (all of them, or on an
\* error the first n).
WriteTemp(dir, name, data, n) == [dir EXCEPT !.tmp[name] = SubSeq(data, 1, n)]

\* os.Rename(tmpPath, path): the target is replaced in one step.
Rename(dir, name) == [dir EXCEPT !.target = dir.tmp[name], !.tmp[name] = NoFile]

\* os.Remove(tmpPath).
Remove(dir, name) == [dir EXCEPT !.tmp[name] = NoFile]

\* os.WriteFile(backupPath, data): the file is truncated, then written; on an
\* error the first n bytes are there.
WriteBackup(dir, data, n) == [dir EXCEPT !.corrupted = SubSeq(data, 1, n)]

\* A wrong CreateTemp: a name in use is not excluded.
AnyTmp(dir) == TmpNames

\* The names os.CreateTemp may pick: those not in use.
FreeTmp(dir) == {n \in TmpNames : dir.tmp[n] = NoFile}

----------------------------------------------------------------------------
(* TodoList: the operations on the list in memory *)

\* A wrong guard: the length itself passes as an index.
InRangeInclusive(index, todos) == index >= 0 /\ index <= Len(todos)

\* The guard of Delete, Toggle and Update.
InRange(index, todos) == index >= 0 /\ index < Len(todos)

\* The loop of Sort: the items with Completed = c, in their order.
RECURSIVE Filter(_, _)
Filter(todos, c) ==
    IF todos = <<>> THEN <<>>
    ELSE (IF Head(todos).Completed = c THEN <<Head(todos)>> ELSE <<>>)
           \o Filter(Tail(todos), c)

\* The items in reverse.
RECURSIVE Reverse(_)
Reverse(todos) == IF todos = <<>> THEN <<>> ELSE Reverse(Tail(todos)) \o <<Head(todos)>>

\* A wrong Sort: the completed items are collected from the end.
SortListUnstable(list) ==
    [list EXCEPT !.Todos = Filter(list.Todos, FALSE) \o Reverse(Filter(list.Todos, TRUE)),
                 !.Nil = (list.Todos = <<>>)]

\* A wrong Sort: the completed items come first.
SortListSwapped(list) ==
    [list EXCEPT !.Todos = Filter(list.Todos, TRUE) \o Filter(list.Todos, FALSE),
                 !.Nil = (list.Todos = <<>>)]

\* Sort, before its Save: append(incomplete, completed...), nil when both are.
SortList(list) ==
    LET incomplete == Filter(list.Todos, FALSE)
        completed == Filter(list.Todos, TRUE)
    IN  [list EXCEPT !.Todos = incomplete \o completed, !.Nil = (list.Todos = <<>>)]

\* A wrong Add: the id is the length of the list plus one.
AddListLenID(list, title, at) ==
    LET todo == Todo(Len(list.Todos) + 1, title, FALSE, at) IN
    [list EXCEPT !.Todos = <<todo>> \o list.Todos, !.Nil = FALSE, !.NextID = list.NextID + 1]

\* The Add of the older revision (src/models.go): the new item goes last.
AddListAppend(list, title, at) ==
    LET todo == Todo(list.NextID, title, FALSE, at) IN
    [list EXCEPT !.Todos = list.Todos \o <<todo>>, !.Nil = FALSE, !.NextID = list.NextID + 1]

\* Add and Insert, before their Sort: the new item goes in front.
AddList(list, title, at) ==
    LET todo == Todo(list.NextID, title, FALSE, at) IN
    [list EXCEPT !.Todos = <<todo>> \o list.Todos, !.Nil = FALSE, !.NextID = list.NextID + 1]

\* The Insert of the older revision (src/models.go): the new item goes
\* behind the item at index, or last when index is at or beyond the end.
InsertListAt(list, index, title, at) ==
    LET todo == Todo(list.NextID, title, FALSE, at)
        todos == IF index >= Len(list.Todos) \/ index < 0
                 THEN list.Todos \o <<todo>>
                 ELSE SubSeq(list.Todos, 1, index + 1) \o <<todo>>
                        \o SubSeq(list.Todos, index + 2, Len(list.Todos))
    IN  [list EXCEPT !.Todos = todos, !.Nil = FALSE, !.NextID = list.NextID + 1]

\* Insert, before its Sort: the id is taken, NextID grows, and the new item
\* goes in front whatever index is.
InsertList(list, index, title, at) ==
    LET todo == Todo(list.NextID, title, FALSE, at)
        counted == [list EXCEPT !.NextID = list.NextID + 1]
    IN  [counted EXCEPT !.Todos = <<todo>> \o counted.Todos, !.Nil = FALSE]

\* Go's zero-based index into the one-based sequence.
At(todos, index) == todos[index + 1]

\* A wrong Delete: the id of the deleted item is given back.
DeleteListRewind(list, index) ==
    [list EXCEPT !.Todos = SubSeq(list.Todos, 1, index) \o Drop(list.Todos, index + 1),
                 !.NextID = list.NextID - 1]

\* A wrong Delete: the item after the one at index is removed.
DeleteListNext(list, index) ==
    [list EXCEPT !.Todos = SubSeq(list.Todos, 1, index + 1) \o Drop(list.Todos, index + 2)]

\* append(tl.Todos[:index], tl.Todos[index+1:]...)
DeleteList(list, index) ==
    [list EXCEPT !.Todos = SubSeq(list.Todos, 1, index) \o Drop(list.Todos, index + 1)]

\* A wrong Toggle: the item is marked completed, whatever it was.
ToggleListSet(list, index) == [list EXCEPT !.Todos[index + 1].Completed = TRUE]

\* tl.Todos[index].Completed = !tl.Todos[index].Completed
ToggleList(list, index) ==
    [list EXCEPT !.Todos[index + 1].Completed = ~At(list.Todos, index).Completed]

\* A wrong Update: the item is stamped with the zero time as it is renamed.
UpdateListStamped(list, index, title) ==
    [list EXCEPT !.Todos[index + 1].Title = title,
                 !.Todos[index + 1].CreatedAt = ZeroTime]

\* A wrong Update: the list is sorted after the title is set.
UpdateListSorted(list, index, title) ==
    SortList([list EXCEPT !.Todos[index + 1].Title = title])

\* tl.Todos[index].Title = title
UpdateList(list, index, title) == [list EXCEPT !.Todos[index + 1].Title = title]

----------------------------------------------------------------------------
(* Save *)

\* Where a Save fails, "none" when it does not.
SaveFailures == {"none", "create", "write", "close", "rename"}

\* Save from its first to its last statement: the directory it leaves. name is
\* the temp file's name and n the bytes a failing Write got out.
SaveDir(dir, data, failAt, name, n) ==
    LET created == CreateTemp(dir, name)
        written == WriteTemp(created, name, data, Len(data))
    IN  CASE failAt = "create" -> dir
          [] failAt = "write" -> Remove(WriteTemp(created, name, data, n), name)
          [] failAt = "close" -> Remove(written, name)
          [] failAt = "rename" -> Remove(written, name)
          [] OTHER -> Rename(written, name)

----------------------------------------------------------------------------
(* State *)

VARIABLES
    Todos,      \* tl.Todos
    TodosNil,   \* whether tl.Todos is the nil slice
    NextID,     \* tl.NextID
    dir,        \* the files of the directory of tl.filepath
    now,        \* the clock: what time.Now() answers next
    panicked,   \* a runtime panic has ended the process
    pc,         \* where a running Save stands: idle, created, written, closed
    tmpPath,    \* the temp file of the running Save
    fails,      \* history: the Saves that failed since the last that succeeded
    last,       \* history: the last call and the error of its Save or Load
    issued,     \* history: the ids given to new items, in order
    snap,       \* history: what the last Save or Load started from
    rdSaw,      \* history: what the reader of the target path last read, and when
    saves,      \* history: the calls of Save the last operation made
    peer,       \* a second store on the same path, and where its Save stands
    model,      \* m, the Model of the UI: mode, input, cursors, file names
    disk        \* the files of m.TodoDir and of m.ArchiveDir

vars == <<Todos, TodosNil, NextID, dir, now, panicked, pc, tmpPath, fails, last, issued, snap, rdSaw,
          saves, peer, model, disk>>

\* What is around the one store: a second store, the UI and its directories.
around == <<peer, model, disk>>

\* There is one store and one path: no second store, no UI.
NoPeer == <<"none">>
NoModel == <<"none">>
NoDisk == <<"none">>
Alone == saves = 0 /\ peer = NoPeer /\ model = NoModel /\ disk = NoDisk

tl == TodoList(Todos, TodosNil, NextID)

\* A wrong NewTodoList: NextID is left at the zero value.
FreshListZero == TodoList(<<>>, FALSE, 0)

\* NewTodoList before its Load: Todos: []Todo{}, NextID: 1.
FreshList == TodoList(<<>>, FALSE, 1)

SetList(new) ==
    /\ Todos' = new.Todos
    /\ TodosNil' = new.Nil
    /\ NextID' = new.NextID

Call(op, err) == [op |-> op, err |-> err]

\* The indices a caller passes: below, in and beyond every list.
Indices == -1..MaxLen

\* The bytes a failing Write may have got out.
PartialLens(data) == {Len(data) \div 2}

Idle == ~panicked /\ pc = "idle"

\* NewTodoList on a path with no file: Load returns nil and the list stays empty.
InitStore ==
    /\ Todos = <<>>
    /\ TodosNil = FALSE
    /\ NextID = 1
    /\ now = 0
    /\ panicked = FALSE
    /\ fails = 0
    /\ pc = "idle"
    /\ tmpPath = 0
    /\ last = Call("Load", "none")
    /\ issued = <<>>
    /\ snap = [dir |-> EmptyDir, tl |-> FreshList]
    /\ rdSaw = NoFile
    /\ Alone

Init ==
    /\ InitStore
    /\ dir = EmptyDir

----------------------------------------------------------------------------
(* The mutations, each with the Save it ends in *)

\* A wrong Commit: the Save runs before the list is changed.
CommitStale(op, new) ==
    /\ SetList(new)
    /\ LET data == Marshal(tl)
           name == CHOOSE n \in FreeTmp(dir) : TRUE
       IN  \E failAt \in SaveFailures, n \in PartialLens(data) :
               /\ failAt # "none" => fails < MaxFail
               /\ last' = Call(op, IF failAt = "none" THEN "none" ELSE "failed")
               /\ fails' = IF failAt = "none" THEN 0 ELSE fails + 1
               /\ dir' = SaveDir(dir, data, failAt, name, n)
               /\ saves' = 1
               /\ UNCHANGED <<panicked, pc, tmpPath, snap, rdSaw, around>>

\* A wrong Commit: Save is called a second time after the first.
CommitTwice(op, new) ==
    /\ SetList(new)
    /\ LET data == Marshal(new)
           name == CHOOSE n \in FreeTmp(dir) : TRUE
       IN  \E failAt \in SaveFailures, n \in PartialLens(data) :
               /\ failAt # "none" => fails < MaxFail
               /\ last' = Call(op, IF failAt = "none" THEN "none" ELSE "failed")
               /\ fails' = IF failAt = "none" THEN 0 ELSE fails + 1
               /\ dir' = SaveDir(SaveDir(dir, data, "none", name, n), data, failAt, name, n)
               /\ saves' = 2
               /\ UNCHANGED <<panicked, pc, tmpPath, snap, rdSaw, around>>

\* A wrong Commit: a Save that fails puts the list back as it was.
CommitUndo(op, new) ==
    LET data == Marshal(new)
        name == CHOOSE n \in FreeTmp(dir) : TRUE
    IN  \E failAt \in SaveFailures, n \in PartialLens(data) :
            /\ failAt # "none" => fails < MaxFail
            /\ SetList(IF failAt = "none" THEN new ELSE tl)
            /\ last' = Call(op, IF failAt = "none" THEN "none" ELSE "failed")
            /\ fails' = IF failAt = "none" THEN 0 ELSE fails + 1
            /\ dir' = SaveDir(dir, data, failAt, name, n)
            /\ saves' = 1
            /\ UNCHANGED <<panicked, pc, tmpPath, snap, rdSaw, around>>

\* The list becomes new and is saved; the Save ends in any of its ways, and
\* its error is dropped by the caller. The temp file is gone when Save
\* returns, whatever its name was.
Commit(op, new) ==
    /\ SetList(new)
    /\ LET data == Marshal(new)
           name == CHOOSE n \in FreeTmp(dir) : TRUE
       IN  \E failAt \in SaveFailures, n \in PartialLens(data) :
               /\ failAt # "none" => fails < MaxFail
               /\ last' = Call(op, IF failAt = "none" THEN "none" ELSE "failed")
               /\ fails' = IF failAt = "none" THEN 0 ELSE fails + 1
               /\ dir' = SaveDir(dir, data, failAt, name, n)
               /\ saves' = 1
               /\ UNCHANGED <<panicked, pc, tmpPath, snap, rdSaw, around>>

\* An index expression or slice expression out of range.
Panic(op) ==
    /\ panicked' = TRUE
    /\ last' = Call(op, "panic")
    /\ UNCHANGED <<Todos, TodosNil, NextID, dir, now, pc, tmpPath, fails, issued, snap, rdSaw, around>>
    /\ saves' = 0

\* The guard was false: the call returns at once.
Skip(op) ==
    /\ last' = Call(op, "nosave")
    /\ UNCHANGED <<Todos, TodosNil, NextID, dir, now, panicked, pc, tmpPath, fails, issued, snap, rdSaw, around>>
    /\ saves' = 0

\* time.Now(): the clock's instant, with its monotonic reading.
Now == Time(now, TRUE)

Add(title) ==
    /\ Idle
    /\ Len(Todos) < MaxLen /\ NextID <= MaxID
    /\ LET added == AddList(tl, title, Now) IN
           /\ issued' = Append(issued, Head(added.Todos).ID)
           /\ now' = now + 1
           /\ Commit("Add", SortList(added))

Insert(index, title) ==
    /\ Idle
    /\ Len(Todos) < MaxLen /\ NextID <= MaxID
    /\ LET added == InsertList(tl, index, title, Now) IN
           /\ issued' = Append(issued, Head(added.Todos).ID)
           /\ now' = now + 1
           /\ Commit("Insert", SortList(added))

Delete(index) ==
    /\ Idle
    /\ IF InRange(index, Todos)
       THEN IF index + 1 \in DOMAIN Todos
            THEN Commit("Delete", DeleteList(tl, index)) /\ UNCHANGED <<now, issued>>
            ELSE Panic("Delete")
       ELSE Skip("Delete")

Toggle(index) ==
    /\ Idle
    /\ IF InRange(index, Todos)
       THEN IF index + 1 \in DOMAIN Todos
            THEN Commit("Toggle", SortList(ToggleList(tl, index)))
                 /\ UNCHANGED <<now, issued>>
            ELSE Panic("Toggle")
       ELSE Skip("Toggle")

Update(index, title) ==
    /\ Idle
    /\ IF InRange(index, Todos)
       THEN IF index + 1 \in DOMAIN Todos
            THEN Commit("Update", UpdateList(tl, index, title))
                 /\ UNCHANGED <<now, issued>>
            ELSE Panic("Update")
       ELSE Skip("Update")

Next ==
    \/ \E title \in Titles : Add(title)
    \/ \E index \in Indices, title \in Titles : Insert(index, title)
    \/ \E index \in Indices : Delete(index)
    \/ \E index \in Indices : Toggle(index)
    \/ \E index \in Indices, title \in Titles : Update(index, title)

Spec == Init /\ [][Next]_vars

----------------------------------------------------------------------------
(* Save, statement by statement, beside a reader of the target path *)

\* The stores that are saved: items in any order, ids that repeat, titles
\* that need escapes, any NextID.
SomeItems ==
    { Todo(1, <<"a">>, FALSE, Time(0, TRUE)),
      Todo(2, <<"\"", "\\">>, TRUE, Time(1, FALSE)),
      Todo(1, <<"<", "b">>, TRUE, Time(12, TRUE)),
      ZeroTodo }

SomeTodos == UNION {[1..n -> SomeItems] : n \in 0..MaxLen}

SomeLists ==
    {TodoList(todos, isNil, nextID) :
        todos \in SomeTodos, isNil \in {FALSE}, nextID \in {-1, 1, 12}}
      \cup {TodoList(<<>>, TRUE, 0)}

\* What the file held before: nothing, or an earlier list.
OldFile == Marshal(TodoList(<<Todo(1, <<"old">>, TRUE, ZeroTime)>>, FALSE, 2))

Snapshot == [dir |-> dir, tl |-> tl]

InitSave ==
    /\ \E list \in SomeLists :
          /\ Todos = list.Todos
          /\ TodosNil = list.Nil
          /\ NextID = list.NextID
    /\ \E old \in {NoFile, OldFile} : dir = FS(old, NoFile, NoTmp)
    /\ now = 0
    /\ panicked = FALSE
    /\ pc = "idle"
    /\ tmpPath = 0
    /\ fails = 0
    /\ last = Call("none", "none")
    /\ issued = <<>>
    /\ snap = Snapshot
    /\ rdSaw = [data |-> dir.target, old |-> dir.target, new |-> dir.target, at |-> "idle"]
    /\ Alone

\* Save returns err: "none" for nil.
SaveReturns(err) ==
    /\ pc' = "idle"
    /\ tmpPath' = 0
    /\ last' = Call("Save", err)

\* A step of Save has failed: err is where.
SaveFails(err) ==
    /\ fails < MaxFail
    /\ fails' = fails + 1
    /\ last' = Call("Save", err)

\* data, err := json.MarshalIndent(tl) cannot fail for a TodoList;
\* os.CreateTemp(dir, ".tui_todo_*.tmp")
SaveCreate ==
    /\ Idle
    /\ snap' = Snapshot
    /\ \/ \E name \in FreeTmp(dir) :
             /\ dir' = CreateTemp(dir, name)
             /\ tmpPath' = name
             /\ pc' = "created"
             /\ last' = Call("Save", "running")
             /\ fails' = fails
       \/ /\ SaveFails("create")
          /\ pc' = "idle"
          /\ UNCHANGED <<dir, tmpPath>>
    /\ UNCHANGED <<Todos, TodosNil, NextID, now, panicked, issued, rdSaw, saves, around>>

\* tmpFile.Write(data): the bytes reach the file in one piece or in two; on an
\* error the first of them are there, and the file is closed.
SaveWrite ==
    /\ ~panicked
    /\ LET data == Marshal(tl) IN
       \/ /\ pc = "created"
          /\ dir' = WriteTemp(dir, tmpPath, data, Len(data))
          /\ pc' = "written"
          /\ UNCHANGED <<fails, last>>
       \/ /\ pc = "created"
          /\ \E n \in PartialLens(data) : dir' = WriteTemp(dir, tmpPath, data, n)
          /\ pc' = "writing"
          /\ UNCHANGED <<fails, last>>
       \/ /\ pc = "writing"
          /\ dir' = WriteTemp(dir, tmpPath, data, Len(data))
          /\ pc' = "written"
          /\ UNCHANGED <<fails, last>>
       \/ /\ pc \in {"created", "writing"}
          /\ SaveFails("write")
          /\ pc' = "failed"
          /\ dir' = dir
    /\ UNCHANGED <<Todos, TodosNil, NextID, now, panicked, tmpPath, issued, snap, rdSaw, saves, around>>

\* tmpFile.Close()
SaveClose ==
    /\ ~panicked
    /\ pc = "written"
    /\ \/ pc' = "closed" /\ UNCHANGED <<fails, last>>
       \/ SaveFails("close") /\ pc' = "failed"
    /\ UNCHANGED <<Todos, TodosNil, NextID, dir, now, panicked, tmpPath, issued, snap, rdSaw, saves, around>>

\* os.Rename(tmpPath, tl.filepath), and return nil
SaveRename ==
    /\ ~panicked
    /\ pc = "closed"
    /\ \/ /\ dir' = Rename(dir, tmpPath)
          /\ SaveReturns("none")
          /\ fails' = 0
       \/ /\ SaveFails("rename")
          /\ pc' = "failed"
          /\ UNCHANGED <<dir, tmpPath>>
    /\ UNCHANGED <<Todos, TodosNil, NextID, now, panicked, issued, snap, rdSaw, saves, around>>

\* A wrong cleanup: the error is returned and the temp file stays.
SaveCleanupNoRemove ==
    /\ ~panicked
    /\ pc = "failed"
    /\ dir' = dir
    /\ SaveReturns(last.err)
    /\ UNCHANGED <<Todos, TodosNil, NextID, now, panicked, fails, issued, snap, rdSaw, saves, around>>

\* os.Remove(tmpPath), and return the error
SaveCleanup ==
    /\ ~panicked
    /\ pc = "failed"
    /\ dir' = Remove(dir, tmpPath)
    /\ SaveReturns(last.err)
    /\ UNCHANGED <<Todos, TodosNil, NextID, now, panicked, fails, issued, snap, rdSaw, saves, around>>

\* Another process reads the target path, whatever Save is doing. A file at
\* the target is never written after it got its name, so a read that takes
\* time finds what a read in one step finds.
ReaderRead ==
    /\ rdSaw' = [data |-> dir.target, old |-> snap.dir.target, new |-> Marshal(snap.tl),
                 at |-> pc]
    /\ UNCHANGED <<Todos, TodosNil, NextID, dir, now, panicked, pc, tmpPath, fails, last,
                   issued, snap, saves, around>>

----------------------------------------------------------------------------
(* NewTodoList and Load *)

\* How os.WriteFile of the backup ends: written, not opened, or cut short.
BackupOutcomes == {"ok", "open", "write"}

\* A wrong backup: the file is moved to path + ".corrupted".
BackupDirMoves(d, data, outcome) ==
    IF outcome = "ok" THEN [d EXCEPT !.corrupted = data, !.target = NoFile] ELSE d

\* Load on an unparseable file: the directory after the backup was tried.
BackupDir(d, data, outcome) ==
    CASE outcome = "ok" -> WriteBackup(d, data, Len(data))
      [] outcome = "write" -> WriteBackup(d, data, Len(data) \div 2)
      [] OTHER -> d

\* What Load returns after the backup was tried.
BackupErr(outcome) == IF outcome = "ok" THEN "backedup" ELSE "backupfailed"

\* The largest id of a list, 0 for an empty one.
RECURSIVE MaxIdOf(_)
MaxIdOf(todos) ==
    IF todos = <<>> THEN 0
    ELSE LET m == MaxIdOf(Tail(todos)) IN IF Head(todos).ID > m THEN Head(todos).ID ELSE m

\* A wrong Load: NextID is not read but taken from the items that were read.
LoadedMaxID(data) ==
    LET r == Unmarshal(data, FreshList) IN
    [tl |-> [r.tl EXCEPT !.NextID = MaxIdOf(r.tl.Todos) + 1], parsed |-> r.err = "none"]

\* The list Load leaves and the error it returns, for a file that was read.
Loaded(data) ==
    LET r == Unmarshal(data, FreshList) IN
    [tl |-> r.tl, parsed |-> r.err = "none"]

\* NewTodoList(path): a new list, then Load, whose error is dropped.
\* readFails: os.ReadFile fails though the file may exist.
Open ==
    /\ Idle
    /\ snap' = Snapshot
    /\ \E readFails \in BOOLEAN, outcome \in BackupOutcomes :
          IF readFails
          THEN /\ outcome = "ok"
               /\ SetList(FreshList)
               /\ last' = Call("Load", "read")
               /\ dir' = dir
          ELSE IF dir.target = NoFile
          THEN /\ outcome = "ok"
               /\ SetList(FreshList)
               /\ last' = Call("Load", "none")
               /\ dir' = dir
          ELSE IF Loaded(dir.target).parsed
          THEN /\ outcome = "ok"
               /\ SetList(Loaded(dir.target).tl)
               /\ last' = Call("Load", "none")
               /\ dir' = dir
          ELSE /\ SetList(Loaded(dir.target).tl)
               /\ last' = Call("Load", BackupErr(outcome))
               /\ dir' = BackupDir(dir, dir.target, outcome)
    /\ UNCHANGED <<now, panicked, pc, tmpPath, fails, issued, rdSaw, around>>
    /\ saves' = 0

\* Save beside the reader.
SaveNext ==
    \/ SaveCreate
    \/ SaveWrite
    \/ SaveClose
    \/ SaveRename
    \/ SaveCleanup
    \/ ReaderRead

SpecSave == InitSave /\ [][SaveNext]_vars

\* Save, and NewTodoList on the path it wrote.
RoundNext ==
    \/ SaveCreate
    \/ SaveWrite
    \/ SaveClose
    \/ SaveRename
    \/ SaveCleanup
    \/ Open

SpecRound == InitSave /\ [][RoundNext]_vars

\* Files that do not parse, and some that do.
Doc(tokens) == <<<<"{">>>> \o tokens \o <<<<"}">>>>
OneItem == TodoList(<<Todo(1, <<"broken">>, FALSE, Time(5, FALSE))>>, FALSE, 2)
Prefixes(data) == {SubSeq(data, 1, n) : n \in 0..Len(data)}
WrongTypes ==
    { <<<<"[">>, <<"]">>>>,
      <<StrTok(<<"todos">>)>>,
      Doc(Key(<<"next_id">>) \o <<NumTok(7)>> \o <<<<",">>>>
            \o Key(<<"todos">>) \o <<StrTok(<<"x">>)>>),
      Doc(Key(<<"todos">>) \o <<<<"[">>, NumTok(5), <<"]">>>> \o <<<<",">>>>
            \o Key(<<"next_id">>) \o <<NumTok(7)>>),
      Doc(Key(<<"todos">>) \o <<<<"[">>, <<"{">>>> \o Key(<<"created_at">>)
            \o <<StrTok(<<"yesterday">>)>> \o <<<<"}">>, <<"]">>>> \o <<<<",">>>>
            \o Key(<<"next_id">>) \o <<NumTok(7)>>),
      Doc(Key(<<"next_id">>) \o <<BoolTok(TRUE)>>) }
Parseable == {Marshal(OneItem), <<<<"null">>>>, Doc(<<>>), OldFile}

LoadSamples == Prefixes(Marshal(OneItem)) \cup WrongTypes \cup Parseable

InitLoad ==
    /\ Todos = <<>>
    /\ TodosNil = FALSE
    /\ NextID = 1
    /\ \E data \in LoadSamples \cup {NoFile}, backup \in {NoFile, OldFile} :
          dir = FS(data, backup, NoTmp)
    /\ now = 0
    /\ panicked = FALSE
    /\ pc = "idle"
    /\ tmpPath = 0
    /\ fails = 0
    /\ last = Call("none", "none")
    /\ issued = <<>>
    /\ snap = Snapshot
    /\ rdSaw = NoFile
    /\ Alone

LoadNext == Open

SpecLoad == InitLoad /\ [][LoadNext]_vars

----------------------------------------------------------------------------
(* A store on a file that does not parse *)

\* The invalidJSON of TestFileCorruptionHandling, and a file whose todos is a
\* string.
BrokenSamples ==
    { SubSeq(Marshal(OneItem), 1, 12),
      Doc(Key(<<"todos">>) \o <<StrTok(<<"x">>)>> \o <<<<",">>>>
            \o Key(<<"next_id">>) \o <<NumTok(2)>>) }

InitRecover ==
    /\ Todos = <<>>
    /\ TodosNil = FALSE
    /\ NextID = 1
    /\ \E data \in BrokenSamples, backup \in {NoFile, OldFile} :
          dir = FS(data, backup, NoTmp)
    /\ now = 0
    /\ panicked = FALSE
    /\ pc = "idle"
    /\ tmpPath = 0
    /\ fails = 0
    /\ last = Call("none", "none")
    /\ issued = <<>>
    /\ snap = Snapshot
    /\ rdSaw = NoFile
    /\ Alone

\* NewTodoList has returned a store.
Opened == last.op # "none"

\* The program opens the store and goes on with what NewTodoList returned.
\* A run has at most MaxID Adds.
RecoverNext ==
    \/ Open
    \/ Opened /\ Len(issued) < MaxID /\ \E title \in Titles : Add(title)
    \/ Opened /\ \E index \in Indices : Delete(index)

SpecRecover == InitRecover /\ [][RecoverNext]_vars

----------------------------------------------------------------------------
(* A store that is closed and opened again, on a disk that works *)

\* Add, Delete: the calls whose Save succeeded.
SavedAdd(title) == Add(title) /\ last'.err = "none"
SavedDelete(index) == Delete(index) /\ last'.err \in {"none", "nosave"}

\* The program starts again: NewTodoList reads the file.
Reopen == Open /\ last'.err = "none"

RestartNext ==
    \/ \E title \in Titles : SavedAdd(title)
    \/ \E index \in Indices : SavedDelete(index)
    \/ Reopen

SpecRestart == Init /\ [][RestartNext]_vars

----------------------------------------------------------------------------
(* Stores in any order: the files an older revision wrote, which did not
   sort, or that were edited by hand *)

AnyItems ==
    { Todo(1, BuyMilk, FALSE, Time(0, FALSE)),
      Todo(2, WalkDog, TRUE, Time(1, FALSE)),
      Todo(3, BuyMilk, FALSE, Time(2, FALSE)),
      Todo(4, WalkDog, TRUE, Time(3, FALSE)) }

\* The lists of at most n of these items.
AnyTodos(n) == UNION {[1..k -> AnyItems] : k \in 0..n}

\* NewTodoList has loaded such a file.
InitAny(todos) ==
    /\ Todos = todos
    /\ TodosNil = FALSE
    /\ NextID = 5
    /\ dir = FS(Marshal(TodoList(todos, FALSE, 5)), NoFile, NoTmp)
    /\ now = 4
    /\ panicked = FALSE
    /\ pc = "idle"
    /\ tmpPath = 0
    /\ fails = 0
    /\ last = Call("Load", "none")
    /\ issued = <<>>
    /\ snap = Snapshot
    /\ rdSaw = NoFile
    /\ Alone

\* Sort(), called on its own.
Sort ==
    /\ Idle
    /\ Commit("Sort", SortList(tl))
    /\ UNCHANGED <<now, issued>>

InitSort == \E todos \in AnyTodos(MaxAny) : InitAny(todos)

SortNext == Sort

SpecSort == InitSort /\ [][SortNext]_vars

\* Delete and Update on a store in any order.
InitEdit == \E todos \in AnyTodos(MaxLen) : InitAny(todos)

\* The titles Update is called with here: the items carry both titles, so an
\* Update renames some and leaves the title of others as it was.
EditTitles == {WalkDog}

EditNext ==
    \/ \E index \in Indices : Delete(index)
    \/ \E index \in Indices, title \in EditTitles : Update(index, title)

SpecEdit == InitEdit /\ [][EditNext]_vars

\* The value of snap before any note.
NoNote == [dir |-> EmptyDir, tl |-> FreshList]

\* History: the store and its directory are noted as the first failed Save of
\* a run left them.
NoteFailed ==
    /\ fails > 0
    /\ snap = NoNote
    /\ snap' = Snapshot
    /\ UNCHANGED <<Todos, TodosNil, NextID, dir, now, panicked, pc, tmpPath, fails, last,
                   issued, rdSaw, saves, around>>

\* The next mutation may be called: the first failed Save, if there was one,
\* was noted, and no Save has succeeded since.
Retrying == IF snap = NoNote THEN fails = 0 ELSE fails > 0

\* The mutations, with one title each, and the note of the first failed Save;
\* the run is followed to the first Save that succeeds after it. Insert is
\* Add, whatever its index.
RetryNext ==
    \/ Retrying /\ Add(BuyMilk)
    \/ Retrying /\ \E index \in Indices : Delete(index)
    \/ Retrying /\ \E index \in Indices : Toggle(index)
    \/ Retrying /\ \E index \in Indices : Update(index, WalkDog)
    \/ NoteFailed

SpecRetry == Init /\ [][RetryNext]_vars

\* Toggle on a store in any order.
ToggleNext == \E index \in Indices : Toggle(index)

SpecToggle == InitEdit /\ [][ToggleNext]_vars

----------------------------------------------------------------------------
(* The store of the root package, models.go *)

\* Insert of models.go, after NextID++: index >= len(tl.Todos) appends; else
\* tl.Todos = append(tl.Todos[:index+1], tl.Todos[index:]...) makes room
\* behind the item at index, and tl.Todos[index+1] = todo fills it.
ModelsInsertList(list, index, title, at) ==
    LET todo == Todo(list.NextID, title, FALSE, at)
        counted == [list EXCEPT !.NextID = list.NextID + 1]
        old == counted.Todos
        room == SubSeq(old, 1, index + 1) \o SubSeq(old, index + 1, Len(old))
    IN  IF index >= Len(old)
        THEN [counted EXCEPT !.Todos = Append(old, todo), !.Nil = FALSE]
        ELSE [counted EXCEPT !.Todos = [room EXCEPT ![index + 2] = todo], !.Nil = FALSE]

\* The slice expressions tl.Todos[:index+1] and tl.Todos[index:] are in range.
ModelsSliceable(index, todos) == 0 <= index + 1 /\ 0 <= index /\ index <= Len(todos)

\* Insert of models.go, with the Save it ends in.
ModelsInsert(index, title) ==
    /\ Idle
    /\ Len(Todos) <= MaxLen
    /\ IF index >= Len(Todos) \/ ModelsSliceable(index, Todos)
       THEN LET added == ModelsInsertList(tl, index, title, Now) IN
                /\ issued' = Append(issued, NextID)
                /\ now' = now + 1
                /\ Commit("Insert", added)
       ELSE Panic("Insert")

\* The stores of models.go are loaded from files with items in any order.
InitModels == \E todos \in AnyTodos(MaxLen) : InitAny(todos)

ModelsNext == \E index \in Indices, title \in EditTitles : ModelsInsert(index, title)

SpecModels == InitModels /\ [][ModelsNext]_vars

----------------------------------------------------------------------------
(* Two stores on one path, each in its Save *)

\* The second store: its list, where its Save stands, its temp file, what its
\* last Save returned, and how many of its Saves failed.
Peer(list, at, name, err, failed) ==
    [tl |-> list, pc |-> at, tmpPath |-> name, err |-> err, fails |-> failed]

\* A step of the second store's Save has failed: err is where.
PeerFails(err, at) ==
    /\ peer.fails < MaxFail
    /\ peer' = [peer EXCEPT !.err = err, !.pc = at, !.fails = peer.fails + 1]

\* os.CreateTemp(dir, ".tui_todo_*.tmp") in the second store
PeerCreate ==
    /\ peer.pc = "idle"
    /\ \/ \E name \in FreeTmp(dir) :
             /\ dir' = CreateTemp(dir, name)
             /\ peer' = [peer EXCEPT !.pc = "created", !.tmpPath = name, !.err = "running"]
       \/ PeerFails("create", "idle") /\ dir' = dir
    /\ UNCHANGED <<Todos, TodosNil, NextID, now, panicked, pc, tmpPath, fails, last, issued,
                   snap, rdSaw, saves, model, disk>>

\* tmpFile.Write(data) in the second store
PeerWrite ==
    /\ LET data == Marshal(peer.tl) IN
       \/ /\ peer.pc = "created"
          /\ dir' = WriteTemp(dir, peer.tmpPath, data, Len(data))
          /\ peer' = [peer EXCEPT !.pc = "written"]
       \/ /\ peer.pc = "created"
          /\ \E n \in PartialLens(data) : dir' = WriteTemp(dir, peer.tmpPath, data, n)
          /\ peer' = [peer EXCEPT !.pc = "writing"]
       \/ /\ peer.pc = "writing"
          /\ dir' = WriteTemp(dir, peer.tmpPath, data, Len(data))
          /\ peer' = [peer EXCEPT !.pc = "written"]
       \/ /\ peer.pc \in {"created", "writing"}
          /\ PeerFails("write", "failed")
          /\ dir' = dir
    /\ UNCHANGED <<Todos, TodosNil, NextID, now, panicked, pc, tmpPath, fails, last, issued,
                   snap, rdSaw, saves, model, disk>>

\* tmpFile.Close() in the second store
PeerClose ==
    /\ peer.pc = "written"
    /\ \/ peer' = [peer EXCEPT !.pc = "closed"]
       \/ PeerFails("close", "failed")
    /\ UNCHANGED <<Todos, TodosNil, NextID, dir, now, panicked, pc, tmpPath, fails, last,
                   issued, snap, rdSaw, saves, model, disk>>

\* os.Rename(tmpPath, tl.filepath), and return nil, in the second store
PeerRename ==
    /\ peer.pc = "closed"
    /\ \/ /\ dir' = Rename(dir, peer.tmpPath)
          /\ peer' = [peer EXCEPT !.pc = "idle", !.tmpPath = 0, !.err = "none", !.fails = 0]
       \/ PeerFails("rename", "failed") /\ dir' = dir
    /\ UNCHANGED <<Todos, TodosNil, NextID, now, panicked, pc, tmpPath, fails, last, issued,
                   snap, rdSaw, saves, model, disk>>

\* os.Remove(tmpPath), and return the error, in the second store
PeerCleanup ==
    /\ peer.pc = "failed"
    /\ dir' = Remove(dir, peer.tmpPath)
    /\ peer' = [peer EXCEPT !.pc = "idle", !.tmpPath = 0]
    /\ UNCHANGED <<Todos, TodosNil, NextID, now, panicked, pc, tmpPath, fails, last, issued,
                   snap, rdSaw, saves, model, disk>>

\* The lists of the two stores: one has an item that the other has not.
TwoTodos == {<<>>, <<Todo(1, BuyMilk, FALSE, Time(0, FALSE))>>}

\* Two stores were opened on the path; their lists differ.
InitTwo ==
    /\ \E mine, other \in TwoTodos :
          /\ mine # other
          /\ Todos = mine
          /\ peer = Peer(TodoList(other, FALSE, 5), "idle", 0, "none", 0)
    /\ TodosNil = FALSE
    /\ NextID = 5
    /\ \E old \in {NoFile, OldFile} : dir = FS(old, NoFile, NoTmp)
    /\ now = 4
    /\ panicked = FALSE
    /\ pc = "idle"
    /\ tmpPath = 0
    /\ fails = 0
    /\ last = Call("none", "none")
    /\ issued = <<>>
    /\ snap = Snapshot
    /\ rdSaw = NoFile
    /\ saves = 0
    /\ model = NoModel
    /\ disk = NoDisk

TwoNext ==
    \/ SaveCreate
    \/ SaveWrite
    \/ SaveClose
    \/ SaveRename
    \/ SaveCleanup
    \/ PeerCreate
    \/ PeerWrite
    \/ PeerClose
    \/ PeerRename
    \/ PeerCleanup

SpecTwo == InitTwo /\ [][TwoNext]_vars

----------------------------------------------------------------------------
(* The UI: the Model, its two directories, and the keys it handles *)

\* The one-character keys that are typed into an input.
Typed == {"a"}

\* m.InputText: what was typed so far.
InputTexts == UNION {[1..k -> Typed] : k \in 0..MaxInput}

\* The names of list files, without their ".json": an input, or "default".
DefaultFile == <<"default">>
FileNames == InputTexts \cup {DefaultFile}

\* The names in the order os.ReadDir gives them: ".json", "a.json", ...,
\* "default.json".
NameOrder ==
    [k \in 1..(MaxInput + 2) |->
        IF k <= MaxInput + 1 THEN [i \in 1..(k - 1) |-> "a"] ELSE DefaultFile]

\* A directory of list files: what each name holds.
EmptyFolder == [n \in FileNames |-> NoFile]

\* LoadTodoFiles(dir): the names of the .json files of the directory.
LoadTodoFiles(folder) == SelectSeq(NameOrder, LAMBDA n : folder[n] # NoFile)

\* filepath.Join(dir, name), with dir m.TodoDir or m.ArchiveDir.
Path(d, n) == [dir |-> d, name |-> n]
FileAt(dk, path) == dk[path.dir][path.name]

\* todo.NewTodoList(path): the list of the file, or the fresh list. The files
\* here were written by Save, and they parse.
NewTodoListAt(dk, path) ==
    IF FileAt(dk, path) = NoFile
    THEN FreshList
    ELSE Unmarshal(FileAt(dk, path), FreshList).tl

\* tl.Save() of a list bound to path: the directories after it. The list is
\* encoded once, and the bytes go through the steps of Save.
SaveAt(dk, path, list, failAt) ==
    CHOOSE saved \in
        {[dk EXCEPT ![path.dir][path.name] =
             SaveDir(FS(@, NoFile, NoTmp), data, failAt, 1, Len(data) \div 2).target] :
           data \in {Marshal(list)}} : TRUE

\* os.Rename(srcPath, dstPath), its error dropped: a file at dstPath is
\* replaced; with no file at srcPath nothing happens.
RenameFile(dk, from, to, name) ==
    IF dk[from][name] = NoFile
    THEN dk
    ELSE [dk EXCEPT ![to][name] = dk[from][name], ![from][name] = NoFile]

\* The Model, the directories and the list of m.TodoList after a handler,
\* with the calls of Save and the items it made.
World(mdl, dk, list, saved, made) ==
    [model |-> mdl, disk |-> dk, tl |-> list, saves |-> saved, made |-> made]

\* m.TodoList.Save(), its error dropped.
Saved(w, failAt) ==
    [w EXCEPT !.disk = SaveAt(w.disk, w.model.path, w.tl, failAt), !.saves = 1]

\* m.Files = LoadTodoFiles(m.TodoDir)
Relisted(w) == [w EXCEPT !.model.Files = LoadTodoFiles(w.disk.todo)]

\* m.Files = LoadTodoFiles(m.TodoDir); m.ArchivedFiles = LoadTodoFiles(m.ArchiveDir)
Reloaded(mdl, dk) ==
    [mdl EXCEPT !.Files = LoadTodoFiles(dk.todo),
                !.ArchivedFiles = LoadTodoFiles(dk.archive)]

\* for i, f := range files { if f == filename { cursor = i; break } }
CursorOf(files, filename, cursor) ==
    IF \E i \in DOMAIN files : files[i] = filename
    THEN (CHOOSE i \in DOMAIN files : files[i] = filename) - 1
    ELSE cursor

\* for i, f := range m.Files { if f == filename { m.FileCursor = i; break } }
Found(mdl, filename) ==
    [mdl EXCEPT !.FileCursor = CursorOf(mdl.Files, filename, mdl.FileCursor)]

\* Model.archiveCurrentFile
archiveCurrentFile(w, failAt) ==
    LET moved == RenameFile(w.disk, "todo", "archive", w.model.CurrentFile)
        lists == Reloaded(w.model, moved)
        first == Path("todo", lists.Files[1])
        default == Path("todo", DefaultFile)
    IN  IF Len(lists.Files) > 0
        THEN World([lists EXCEPT !.FileCursor = 0, !.CurrentFile = first.name,
                                 !.path = first, !.TodoCursor = 0],
                   moved, NewTodoListAt(moved, first), 0, 0)
        ELSE [Relisted(Saved(World([lists EXCEPT !.CurrentFile = DefaultFile,
                                                 !.path = default],
                                   moved, NewTodoListAt(moved, default), 0, 0),
                             failAt))
                EXCEPT !.model.TodoCursor = 0]

\* Model.unarchiveFile
unarchiveFile(w, filename) ==
    LET moved == RenameFile(w.disk, "archive", "todo", filename)
        dst == Path("todo", filename)
    IN  World(Found([Reloaded(w.model, moved) EXCEPT !.CurrentFile = filename,
                                                     !.path = dst,
                                                     !.ShowingArchive = FALSE],
                    filename),
              moved, NewTodoListAt(moved, dst), 0, 0)

\* Model.deleteCurrentFile, once the file at the path is open: with no file
\* left the fresh list is saved as default.json.
Defaulted(opened, failAt) ==
    IF Len(opened.model.Files) > 0
    THEN [opened EXCEPT !.model.TodoCursor = 0]
    ELSE [Relisted(Saved(opened, failAt))
            EXCEPT !.model.FileCursor = 0, !.model.TodoCursor = 0]

\* Model.deleteCurrentFile
deleteCurrentFile(w, failAt) ==
    LET removed == [w.disk EXCEPT !.todo[w.model.CurrentFile] = NoFile]
        files == LoadTodoFiles(removed.todo)
        cursor == IF Len(files) > 0 /\ w.model.FileCursor >= Len(files)
                  THEN Len(files) - 1
                  ELSE w.model.FileCursor
        next == IF Len(files) > 0
                THEN Path("todo", files[cursor + 1])
                ELSE Path("todo", DefaultFile)
    IN  Defaulted(World([w.model EXCEPT !.Files = files, !.FileCursor = cursor,
                                        !.CurrentFile = next.name, !.path = next],
                        removed, NewTodoListAt(removed, next), 0, 0),
                  failAt)

\* A wrong allTodosCompleted: one completed item is enough.
anyTodoCompleted(todos) == \E k \in DOMAIN todos : todos[k].Completed

\* Model.allTodosCompleted
allTodosCompleted(todos) ==
    /\ Len(todos) # 0
    /\ \A k \in DOMAIN todos : todos[k].Completed

\* Model.previewFile
previewFile(w) ==
    LET files == IF w.model.ShowingArchive THEN w.model.ArchivedFiles ELSE w.model.Files
        preview == Path(IF w.model.ShowingArchive THEN "archive" ELSE "todo",
                        files[w.model.FileCursor + 1])
    IN  IF w.model.FileCursor >= Len(files)
        THEN w
        ELSE [w EXCEPT !.model.path = preview, !.model.TodoCursor = 0,
                       !.tl = NewTodoListAt(w.disk, preview)]

\* The keys of handleNormalMode that are pressed in the runs of the file
\* operations.
NormalKeys == {"h", "l", "z", "a", "i", "A", "enter"}

\* The keys of handleNormalMode, but "q".
AllKeys == NormalKeys \cup {"esc", "tab", "j", "k", "d", " ", "x"}

\* Model.toggleTodoWithArchivePrompt: the two branches on wasCompleted are
\* the same statement.
toggleTodoWithArchivePrompt(w, failAt) ==
    LET toggled == Saved([w EXCEPT !.tl = SortList(ToggleList(@, w.model.TodoCursor))],
                         failAt)
        held == IF toggled.model.TodoCursor >= Len(toggled.tl.Todos)
                THEN Len(toggled.tl.Todos) - 1
                ELSE toggled.model.TodoCursor
    IN  IF allTodosCompleted(toggled.tl.Todos)
        THEN [toggled EXCEPT !.model.TodoCursor = held, !.model.Mode = "EditMode",
                             !.model.EditingIndex = -3,
                             !.model.StatusMessage = "All complete! Archive this list?"]
        ELSE [toggled EXCEPT !.model.TodoCursor = held,
                             !.model.StatusMessage = "Toggled todo status"]

\* handleNormalMode, "d" in the todo panel: the todo at the cursor is deleted.
deleteTodo(w, failAt) ==
    LET deleted == Saved([w EXCEPT !.tl = DeleteList(@, w.model.TodoCursor)], failAt)
        cursor == deleted.model.TodoCursor
    IN  [deleted EXCEPT !.model.TodoCursor =
                            IF cursor >= Len(deleted.tl.Todos) /\ cursor > 0
                            THEN cursor - 1
                            ELSE cursor,
                        !.model.StatusMessage = "Deleted todo"]

\* The length of the file list that is shown.
maxFiles(mdl) == IF mdl.ShowingArchive THEN Len(mdl.ArchivedFiles) ELSE Len(mdl.Files)

\* handleNormalMode: the key ends in m.previewFile().
Previews(mdl, key) ==
    \/ key = "h"
    \/ key = "tab" /\ mdl.ActivePanel # "FilePanel"
    \/ key = "j" /\ mdl.ActivePanel = "FilePanel" /\ mdl.FileCursor < maxFiles(mdl) - 1
    \/ key = "k" /\ mdl.ActivePanel = "FilePanel" /\ mdl.FileCursor > 0

\* handleNormalMode: what such a key does before the preview.
Turned(mdl, key) ==
    CASE key = "j" -> [mdl EXCEPT !.FileCursor = @ + 1]
      [] key = "k" -> [mdl EXCEPT !.FileCursor = @ - 1]
      [] OTHER -> [mdl EXCEPT !.ActivePanel = "FilePanel"]

\* Model.handleNormalMode: in the file panel " " does what "enter" does.
handleNormalMode(w, key, failAt) ==
    LET mdl == w.model
        inFiles == mdl.ActivePanel = "FilePanel"
        onTodo == ~inFiles /\ mdl.TodoCursor < Len(w.tl.Todos)
    IN  CASE Previews(mdl, key) -> previewFile([w EXCEPT !.model = Turned(mdl, key)])
          [] key = "esc" /\ ~inFiles -> [w EXCEPT !.model.ActivePanel = "FilePanel"]
          [] key = "l" \/ (key = "tab" /\ inFiles) ->
                [w EXCEPT !.model.ActivePanel = "TodoPanel"]
          [] key = "j" /\ ~inFiles /\ mdl.TodoCursor < Len(w.tl.Todos) - 1 ->
                [w EXCEPT !.model.TodoCursor = @ + 1]
          [] key = "k" /\ ~inFiles /\ mdl.TodoCursor > 0 ->
                [w EXCEPT !.model.TodoCursor = @ - 1]
          [] key \in {"enter", " "} /\ inFiles /\ mdl.ShowingArchive
                /\ mdl.FileCursor < Len(mdl.ArchivedFiles) ->
                LET r == unarchiveFile(w, mdl.ArchivedFiles[mdl.FileCursor + 1])
                IN  [r EXCEPT !.model.ActivePanel = "TodoPanel",
                              !.model.StatusMessage = "Unarchived"]
          [] key \in {"enter", " "} /\ inFiles /\ ~mdl.ShowingArchive
                /\ mdl.FileCursor < Len(mdl.Files) ->
                LET open == Path("todo", mdl.Files[mdl.FileCursor + 1])
                IN  [w EXCEPT !.model.CurrentFile = open.name, !.model.path = open,
                              !.model.ActivePanel = "TodoPanel", !.model.TodoCursor = 0,
                              !.model.StatusMessage = "Opened",
                              !.tl = NewTodoListAt(w.disk, open)]
          [] key = "z" /\ inFiles ->
                [w EXCEPT !.model.ShowingArchive = ~mdl.ShowingArchive,
                          !.model.FileCursor = 0,
                          !.model.StatusMessage = "Showing"]
          [] key = "a" /\ inFiles /\ ~mdl.ShowingArchive ->
                [w EXCEPT !.model.Mode = "EditMode", !.model.EditingIndex = -2,
                          !.model.InputText = <<>>,
                          !.model.StatusMessage = "Enter filename"]
          [] key = "a" /\ ~inFiles ->
                [w EXCEPT !.model.Mode = "EditMode", !.model.EditingIndex = -1,
                          !.model.InputText = <<>>, !.model.TodoCursor = 0,
                          !.model.StatusMessage = "Adding"]
          [] key = "i" /\ onTodo ->
                [w EXCEPT !.model.Mode = "EditMode",
                          !.model.EditingIndex = mdl.TodoCursor,
                          !.model.InputText = At(w.tl.Todos, mdl.TodoCursor).Title,
                          !.model.StatusMessage = "Editing"]
          [] key = "d" /\ inFiles /\ ~mdl.ShowingArchive
                /\ mdl.FileCursor < Len(mdl.Files) ->
                [w EXCEPT !.model.Mode = "EditMode", !.model.EditingIndex = -4,
                          !.model.StatusMessage = "Delete this file?"]
          [] key = "d" /\ onTodo -> deleteTodo(w, failAt)
          [] key \in {" ", "x"} /\ onTodo -> toggleTodoWithArchivePrompt(w, failAt)
          [] key = "A" /\ inFiles /\ ~mdl.ShowingArchive ->
                [w EXCEPT !.model.Mode = "EditMode", !.model.EditingIndex = -3,
                          !.model.StatusMessage = "Archive this file?"]
          [] OTHER -> w

\* Where a click lands: in the file panel or the todo panel, on a line of it;
\* line is y - 3.
Clicks == [side : {"left", "right"}, line : -1..MaxLen]

\* Model.handleMouse, for a press or a release inside the window.
handleMouse(w, click) ==
    IF click.side = "left"
    THEN [w EXCEPT !.model.ActivePanel = "FilePanel",
                   !.model.FileCursor =
                       IF click.line >= 0 /\ click.line < Len(w.model.Files)
                       THEN click.line ELSE @]
    ELSE [w EXCEPT !.model.ActivePanel = "TodoPanel",
                   !.model.TodoCursor =
                       IF click.line >= 0 /\ click.line < Len(w.tl.Todos)
                       THEN click.line ELSE @,
                   !.model.StatusMessage =
                       IF click.line >= 0 /\ click.line < Len(w.tl.Todos)
                       THEN "Selected" ELSE @]

\* A wrong check of the input: nothing is held back.
NeverEmpty(text) == FALSE

\* m.InputText != "" is false: the input is empty.
EmptyInput(text) == text = <<>>

\* handleEditMode, "enter" with m.EditingIndex == -2: the new file is opened,
\* saved and listed.
NewFile(w, failAt) ==
    LET filename == w.model.InputText
        newPath == Path("todo", filename)
        made == Relisted(Saved(World([w.model EXCEPT !.CurrentFile = filename,
                                                     !.path = newPath],
                                     w.disk, NewTodoListAt(w.disk, newPath), 0, 0),
                               failAt))
    IN  [made EXCEPT !.model = [Found(@, filename) EXCEPT
                                   !.ActivePanel = "TodoPanel", !.TodoCursor = 0,
                                   !.StatusMessage = "Created"]]

\* handleEditMode, "enter" with an input that is not empty: a new file, a new
\* todo, or a new title for the todo at m.EditingIndex.
Submit(w, failAt, at) ==
    LET mdl == w.model
        done == [w EXCEPT !.model.Mode = "NormalMode"]
    IN  CASE mdl.EditingIndex = -2 ->
                [NewFile(w, failAt) EXCEPT !.model.Mode = "NormalMode"]
          [] mdl.EditingIndex = -1 ->
                [Saved([w EXCEPT !.tl = SortList(InsertList(@, mdl.TodoCursor,
                                                            mdl.InputText, at)),
                                 !.made = 1],
                       failAt)
                   EXCEPT !.model.TodoCursor = 0, !.model.Mode = "NormalMode"]
          [] mdl.EditingIndex >= 0 /\ InRange(mdl.EditingIndex, w.tl.Todos) ->
                [Saved([w EXCEPT !.tl = UpdateList(@, mdl.EditingIndex, mdl.InputText)],
                       failAt)
                   EXCEPT !.model.Mode = "NormalMode", !.model.StatusMessage = "Saved"]
          [] mdl.EditingIndex >= 0 ->
                [done EXCEPT !.model.StatusMessage = "Saved"]
          [] OTHER -> done

\* The keys of handleEditMode that are pressed here: at a yes/no prompt, and
\* into an input.
EditKeys(mdl) ==
    IF mdl.EditingIndex \in {-3, -4}
    THEN {"y", "n", "esc", "enter"}
    ELSE {"enter", "esc", "backspace"} \cup Typed

\* Model.handleEditMode
handleEditMode(w, key, failAt, at) ==
    LET mdl == w.model
        cancelled == [w EXCEPT !.model.Mode = "NormalMode",
                               !.model.StatusMessage = "Cancelled"]
    IN  IF mdl.EditingIndex = -4
        THEN CASE key = "y" ->
                    LET r == deleteCurrentFile(w, failAt)
                    IN  [r EXCEPT !.model.Mode = "NormalMode",
                                  !.model.ActivePanel = "FilePanel",
                                  !.model.StatusMessage = "File deleted!"]
               [] key \in {"n", "esc"} -> cancelled
               [] OTHER -> w
        ELSE IF mdl.EditingIndex = -3
        THEN CASE key = "y" ->
                    LET r == archiveCurrentFile(w, failAt)
                    IN  [r EXCEPT !.model.Mode = "NormalMode",
                                  !.model.ActivePanel = "FilePanel",
                                  !.model.StatusMessage = "File archived!"]
               [] key \in {"n", "esc"} -> cancelled
               [] OTHER -> w
        ELSE CASE key = "esc" -> cancelled
               [] key = "enter" ->
                    IF EmptyInput(mdl.InputText)
                    THEN [w EXCEPT !.model.StatusMessage = "Cannot be empty"]
                    ELSE Submit(w, failAt, at)
               [] key = "backspace" ->
                    IF Len(mdl.InputText) > 0
                    THEN [w EXCEPT !.model.InputText = SubSeq(@, 1, Len(@) - 1)]
                    ELSE w
               [] OTHER -> [w EXCEPT !.model.InputText = Append(@, key)]

\* initialModel(), with the two directories as it finds them: the first file
\* of m.TodoDir is opened; with no file, "default.json" is listed and not
\* written.
initialModel(dk) ==
    LET files == LoadTodoFiles(dk.todo)
        currentFile == IF Len(files) > 0 THEN files[1] ELSE DefaultFile
    IN  [Mode |-> "NormalMode", EditingIndex |-> -1, InputText |-> <<>>,
         ActivePanel |-> "FilePanel", ShowingArchive |-> FALSE,
         FileCursor |-> 0, TodoCursor |-> 0,
         CurrentFile |-> currentFile, path |-> Path("todo", currentFile),
         Files |-> IF Len(files) > 0 THEN files ELSE <<currentFile>>,
         ArchivedFiles |-> LoadTodoFiles(dk.archive), StatusMessage |-> ""]

\* What "default.json" holds in a directory when the program starts: nothing,
\* or what an earlier run saved.
HomeFiles(title) ==
    {NoFile, Marshal(TodoList(<<Todo(1, title, FALSE, Time(0, FALSE))>>, FALSE, 2))}

InitUI ==
    \E active \in HomeFiles(BuyMilk), archived \in HomeFiles(WalkDog) :
        /\ disk = [todo |-> [EmptyFolder EXCEPT ![DefaultFile] = active],
                   archive |-> [EmptyFolder EXCEPT ![DefaultFile] = archived]]
        /\ model = initialModel(disk)
        /\ \E start \in {NewTodoListAt(disk, model.path)} :
              /\ Todos = start.Todos
              /\ TodosNil = start.Nil
              /\ NextID = start.NextID
        /\ dir = EmptyDir
        /\ now = 0
        /\ panicked = FALSE
        /\ pc = "idle"
        /\ tmpPath = 0
        /\ fails = 0
        /\ last = Call("none", "none")
        /\ issued = <<>>
        /\ snap = [dir |-> EmptyDir, tl |-> FreshList]
        /\ rdSaw = NoFile
        /\ saves = 0
        /\ peer = NoPeer

\* Model.Update on a tea.KeyMsg: the handler of the mode has run, with the
\* Save inside it ending in failAt.
Handled(key, failAt, after) ==
    /\ now < MaxKeys
    /\ failAt # "none" => (after.saves > 0 /\ fails < MaxFail)
    /\ model' = after.model
    /\ disk' = after.disk
    /\ SetList(after.tl)
    /\ saves' = after.saves
    /\ fails' = IF after.saves = 0 THEN fails ELSE IF failAt = "none" THEN 0 ELSE fails + 1
    /\ last' = Call(key, IF after.saves = 0 THEN "nosave"
                          ELSE IF failAt = "none" THEN "none" ELSE "failed")
    /\ now' = now + 1
    /\ issued' = IF after.made > 0 THEN Append(issued, NextID) ELSE issued
    /\ UNCHANGED <<dir, panicked, pc, tmpPath, snap, rdSaw, peer>>

Here == World(model, disk, tl, 0, 0)

NormalKey(key) ==
    /\ model.Mode = "NormalMode"
    /\ \E failAt \in SaveFailures :
          \E after \in {handleNormalMode(Here, key, failAt)} :
              Handled(key, failAt, after)

EditKey(key) ==
    /\ model.Mode = "EditMode"
    /\ key \in Typed => Len(model.InputText) < MaxInput
    /\ \E failAt \in SaveFailures :
          \E after \in {handleEditMode(Here, key, failAt, Now)} :
              Handled(key, failAt, after)

UINext ==
    \/ \E key \in NormalKeys : NormalKey(key)
    \/ \E key \in EditKeys(model) : EditKey(key)

SpecUI == InitUI /\ [][UINext]_vars

\* Model.Update on a tea.MouseMsg: handleMouse in normal mode; in edit mode
\* the Model is returned as it is.
MouseClick(click) ==
    /\ model.Mode = "NormalMode"
    /\ \E after \in {handleMouse(Here, click)} : Handled("click", "none", after)

\* The keys and clicks of a run of SpecEvents.
MaxEvents == 4

\* What "a.json" holds in the todo directory when the program starts:
\* nothing, or a list of two.
TwoItems ==
    {NoFile, Marshal(TodoList(<<Todo(1, BuyMilk, FALSE, Time(0, FALSE)),
                                Todo(2, WalkDog, FALSE, Time(0, FALSE))>>, FALSE, 3))}

InitEvents ==
    \E first \in TwoItems, active \in HomeFiles(BuyMilk), archived \in HomeFiles(WalkDog) :
        /\ disk = [todo |-> [EmptyFolder EXCEPT ![<<"a">>] = first, ![DefaultFile] = active],
                   archive |-> [EmptyFolder EXCEPT ![DefaultFile] = archived]]
        /\ model = initialModel(disk)
        /\ \E start \in {NewTodoListAt(disk, model.path)} :
              /\ Todos = start.Todos
              /\ TodosNil = start.Nil
              /\ NextID = start.NextID
        /\ dir = EmptyDir
        /\ now = 0
        /\ panicked = FALSE
        /\ pc = "idle"
        /\ tmpPath = 0
        /\ fails = 0
        /\ last = Call("none", "none")
        /\ issued = <<>>
        /\ snap = [dir |-> EmptyDir, tl |-> FreshList]
        /\ rdSaw = NoFile
        /\ saves = 0
        /\ peer = NoPeer

\* Every key, and the mouse.
EventNext ==
    \/ now < MaxEvents /\ \E key \in AllKeys : NormalKey(key)
    \/ now < MaxEvents /\ \E key \in EditKeys(model) : EditKey(key)
    \/ now < MaxEvents /\ \E click \in Clicks : MouseClick(click)

SpecEvents == InitEvents /\ [][EventNext]_vars

----------------------------------------------------------------------------
(* What the claims are stated with *)

Mutations == {"Add", "Insert", "Delete", "Toggle", "Update"}

\* No completed item precedes an incomplete one.
Partitioned(todos) ==
    \A i, j \in DOMAIN todos : (i < j /\ todos[i].Completed) => todos[j].Completed

\* The position of the item with this id.
PosOf(todos, id) == CHOOSE k \in DOMAIN todos : todos[k].ID = id

Ids(todos) == {todos[k].ID : k \in DOMAIN todos}

NoDup(s) == \A i, j \in DOMAIN s : s[i] = s[j] => i = j

\* An item as a file keeps it: the monotonic clock reading is not written.
Stored(t) == [t EXCEPT !.CreatedAt = Time(t.CreatedAt.sec, FALSE)]
StoredAll(todos) == [k \in DOMAIN todos |-> Stored(todos[k])]

\* What a new store reads from a file.
Decoded(data) == Unmarshal(data, FreshList)

\* The file holds these items, in this order, and this NextID.
FileHolds(data, todos, nextID) ==
    /\ data # NoFile
    /\ LET r == Decoded(data) IN
          /\ r.err = "none"
          /\ r.tl.Todos = StoredAll(todos)
          /\ r.tl.NextID = nextID

----------------------------------------------------------------------------
(* C1: from an empty store on a path with no file, after every Add, Insert,
   Delete, Toggle and Update, with any index, Todos is a block of incomplete
   items followed by a block of completed items. *)
C1_Partitioned == Partitioned(Todos)

\* A Toggle has left an incomplete item before a completed one.
C1_Witness ==
    /\ last.op = "Toggle"
    /\ Len(Todos) = 2
    /\ ~Todos[1].Completed
    /\ Todos[2].Completed

\* The steps at which Save can fail.
SaveErrors == {"create", "write", "close", "rename"}

(* C2: when Save has failed at the creation of the temp file, at the write,
   at the close or at the rename, it has returned an error, the file at the
   target path is what it was before the call, or still absent, and no temp
   file of the call is left in the directory. *)
C2_FailedSaveLeavesTarget ==
    (pc = "idle" /\ last.op = "Save" /\ fails > 0)
    => ( /\ last.err \in SaveErrors
         /\ dir.target = snap.dir.target
         /\ dir.tmp = NoTmp
         /\ dir = snap.dir )

\* A Save that would have changed the file has failed at the rename and
\* returned.
C2_Witness ==
    /\ pc = "idle"
    /\ last = Call("Save", "rename")
    /\ dir.target = OldFile
    /\ Marshal(tl) # OldFile

(* C3: what another process reads at the target path, at any point between
   the steps of a running Save, is all of the content from before the Save,
   or no file when there was none, or all of the new content: never a part
   of either and never an empty file. *)
C3_ReaderSeesWhole == rdSaw.data \in {rdSaw.old, rdSaw.new}

\* The reader read while half of the new content was in the temp file.
C3_Witness ==
    /\ rdSaw.at = "writing"
    /\ rdSaw.data = OldFile
    /\ rdSaw.new # OldFile

\* Two lists have the same items in the same order, by id, title and flag.
SameItems(a, b) ==
    /\ Len(a) = Len(b)
    /\ \A k \in DOMAIN a :
          /\ a[k].ID = b[k].ID
          /\ a[k].Title = b[k].Title
          /\ a[k].Completed = b[k].Completed

(* C4: for any store, whatever its items, their order and its NextID, a Save
   that succeeds and then a Load that reads the same path give a store with
   as many items, in the same order, each with the same id, title and
   completed flag, and with the same NextID. *)
C4_RoundTrip ==
    [][(last = Call("Save", "none") /\ Open /\ last'.err # "read")
       => ( /\ last'.err = "none"
            /\ SameItems(Todos', Todos)
            /\ NextID' = NextID )]_vars

\* A store with a completed item above an incomplete one, both with the same
\* id, titles that need escapes and a negative NextID was saved and loaded.
C4_Witness ==
    /\ last = Call("Load", "none")
    /\ snap.dir.target = Marshal(snap.tl)
    /\ Len(Todos) = 2
    /\ Todos[1].ID = Todos[2].ID
    /\ Todos[1].Completed /\ ~Todos[2].Completed
    /\ Todos[1].Title = <<"<", "b">>
    /\ NextID = -1

(* C5: the items of Todos have pairwise distinct ids, every id is below
   NextID, and the id given to a new item differs from every id given before,
   those of deleted items included. *)
C5_FreshIds ==
    /\ \A i, j \in DOMAIN Todos : Todos[i].ID = Todos[j].ID => i = j
    /\ \A i \in DOMAIN Todos : Todos[i].ID < NextID
    /\ NoDup(issued)
    /\ \A k \in DOMAIN issued : issued[k] < NextID

\* An item was created after another was deleted.
C5_Witness ==
    /\ last.op \in {"Add", "Insert"}
    /\ Len(issued) = 2
    /\ Len(Todos) = 1
    /\ Todos[1].ID = issued[2]

\* Load found a file that it read and could not parse.
LoadedUnparseable ==
    /\ last.op = "Load"
    /\ last.err # "read"
    /\ snap.dir.target # NoFile
    /\ Decoded(snap.dir.target).err # "none"

\* C6 as the specification states it: the backup is always written.
C6_AlwaysBackedUp ==
    LoadedUnparseable
    => ( /\ last.err # "none"
         /\ dir.corrupted = snap.dir.target
         /\ dir.target = snap.dir.target )

(* C6: when the file at the path exists and does not parse, Load returns an
   error and leaves the file at the path as it was; when the write of the
   backup succeeds, path + ".corrupted" holds the bytes that were read, and
   the error says so. *)
C6_BackedUpUnlessWriteFails ==
    LoadedUnparseable
    => ( /\ last.err \in {"backedup", "backupfailed"}
         /\ dir.target = snap.dir.target
         /\ last.err = "backedup" => dir.corrupted = snap.dir.target )

\* A file whose todos is a string was backed up over an older backup.
C6_Witness ==
    /\ last = Call("Load", "backedup")
    /\ snap.dir.corrupted = OldFile
    /\ dir.corrupted = dir.target
    /\ Decoded(dir.target).err = "type"

(* C7: after an in-range mutation whose Save succeeded, the file at the
   store's path holds exactly the Todos in memory, in the same order, and the
   same NextID. *)
C7_FileIsMemory ==
    (last.op \in Mutations /\ last.err = "none") => FileHolds(dir.target, Todos, NextID)

\* A Toggle has reordered two items and saved them.
C7_Witness ==
    /\ last.op = "Toggle"
    /\ last.err = "none"
    /\ Len(Todos) = 2
    /\ Todos[2].Completed
    /\ Todos[2].ID = 2

(* C8: for an index below 0 or at or beyond len(Todos), Delete, Toggle and
   Update return without a panic and leave Todos, NextID and the content of
   the file on disk as they were. *)
C8_OutOfRangeNoOp ==
    [][\A index \in Indices :
          ( /\ index < 0 \/ index >= Len(Todos)
            /\ last'.op \in {"Delete", "Toggle", "Update"}
            /\ Delete(index) \/ Toggle(index) \/ \E title \in Titles : Update(index, title) )
          => ( /\ ~panicked'
               /\ Todos' = Todos
               /\ TodosNil' = TodosNil
               /\ NextID' = NextID
               /\ dir' = dir )]_vars

\* An out-of-range call has returned on a store that holds items and a file.
C8_Witness ==
    /\ last.op \in {"Delete", "Toggle", "Update"}
    /\ last.err = "nosave"
    /\ Todos # <<>>
    /\ dir.target # NoFile

(* C9: Add(title) on a partitioned store places the new item at index 0,
   incomplete and with the id that NextID had before the call; the items
   that were there follow it in their order, with their fields unchanged. *)
C9_AddOnTop ==
    [][\A title \in Titles :
          (Partitioned(Todos) /\ last'.op = "Add" /\ Add(title))
          => ( /\ Todos' # <<>>
               /\ Head(Todos').ID = NextID
               /\ Head(Todos').Title = title
               /\ ~Head(Todos').Completed
               /\ Tail(Todos') = Todos )]_vars

\* An Add has put its item above a completed one.
C9_Witness ==
    /\ last.op = "Add"
    /\ Len(Todos) = 2
    /\ Todos[1].ID = 2
    /\ Todos[2].Completed

\* The item of todos with the same id as t.
Same(todos, t) == todos[PosOf(todos, t.ID)]

\* Toggle(index) took before to after: the same items, the one at index with
\* its flag flipped and nothing else changed, incomplete before completed, and
\* inside each block the order they had.
ToggledFrom(before, index, after) ==
    /\ Len(after) = Len(before)
    /\ Ids(after) = Ids(before)
    /\ \A k \in DOMAIN before :
          Same(after, before[k]) =
              IF k = index + 1
              THEN [before[k] EXCEPT !.Completed = ~before[k].Completed]
              ELSE before[k]
    /\ Partitioned(after)
    /\ \A i, j \in DOMAIN after :
          (i < j /\ after[i].Completed = after[j].Completed)
          => PosOf(before, after[i].ID) < PosOf(before, after[j].ID)

\* The run of the example: two Adds, then Toggle(1).
MilkThenDog ==
    <<Todo(2, WalkDog, FALSE, Time(1, TRUE)), Todo(1, BuyMilk, FALSE, Time(0, TRUE))>>
DogThenMilkDone ==
    <<Todo(2, WalkDog, FALSE, Time(1, TRUE)), Todo(1, BuyMilk, TRUE, Time(0, TRUE))>>

(* C10: for 0 <= index < len(Todos), Toggle(index) flips Completed of the
   item at index and of no other, changes no id, title or createdAt, keeps
   the same items and re-applies the stable partition; from the empty store,
   Add("buy milk"), Add("walk dog"), Toggle(1) gives walk dog (incomplete),
   buy milk (completed). *)
C10_Toggle ==
    [][ /\ \A index \in Indices :
              (0 <= index /\ index < Len(Todos) /\ last'.op = "Toggle" /\ Toggle(index))
              => ToggledFrom(Todos, index, Todos')
        /\ (Todos = <<>> /\ NextID = 1 /\ now = 0 /\ last'.op = "Add" /\ Add(BuyMilk))
              => Todos' = <<Todo(1, BuyMilk, FALSE, Time(0, TRUE))>>
        /\ (Todos = <<Todo(1, BuyMilk, FALSE, Time(0, TRUE))>> /\ NextID = 2 /\ now = 1
              /\ last'.op = "Add" /\ Add(WalkDog))
              => Todos' = MilkThenDog
        /\ (Todos = MilkThenDog /\ last'.op = "Toggle" /\ Toggle(1))
              => Todos' = DogThenMilkDone ]_vars

\* The example has run to its end.
C10_Witness ==
    /\ last.op = "Toggle"
    /\ Todos = DogThenMilkDone

IsDone(t) == t.Completed
IsOpen(t) == ~t.Completed

\* How often x occurs in todos.
Count(todos, x) == Cardinality({k \in DOMAIN todos : todos[k] = x})

\* Sort took before to after: incomplete before completed, each group as it
\* was and in the order it had, and every item as often as before.
SortedFrom(before, after) ==
    /\ Partitioned(after)
    /\ SelectSeq(after, IsOpen) = SelectSeq(before, IsOpen)
    /\ SelectSeq(after, IsDone) = SelectSeq(before, IsDone)
    /\ Len(after) = Len(before)
    /\ \A k \in DOMAIN before : Count(after, before[k]) = Count(before, before[k])
    /\ \A k \in DOMAIN after : Count(before, after[k]) = Count(after, after[k])

(* C11: for any sequence of items, whatever their completed flags, after
   Sort() every incomplete item precedes every completed item, the items of
   each group are in the order they had before the call, and the result is
   a permutation of the input: no item is lost, added or changed. *)
C11_SortStable == [][(last'.op = "Sort" /\ Sort) => SortedFrom(Todos, Todos')]_vars

\* Sort has moved a completed item from the front behind two incomplete ones.
C11_Witness ==
    /\ last.op = "Sort"
    /\ Len(Todos) = 3
    /\ snap.tl.Todos[1].Completed
    /\ snap.tl.Todos[2].ID = 3
    /\ snap.tl.Todos[3].ID = 1
    /\ Todos = <<snap.tl.Todos[2], snap.tl.Todos[3], snap.tl.Todos[1]>>

\* The step gave one new item, with this id and title.
NewItem(id, title) ==
    /\ Ids(Todos') \ Ids(Todos) = {id}
    /\ Same(Todos', [ID |-> id]).Title = title
    /\ Len(Todos') = Len(Todos) + 1

(* C12: Add and Insert give the new item the id NextID and then add 1 to
   NextID; Delete, Toggle, Update and Sort leave NextID as it is. So the ids
   that the Adds and Inserts hand out from NextID = k are k, k+1, k+2 and so
   on, each once, whatever Deletes come between them. *)
C12_NextID ==
    [][ /\ last'.op \in {"Add", "Insert"} =>
              /\ \E title \in Titles : NewItem(NextID, title)
              /\ NextID' = NextID + 1
        /\ last'.op \in {"Delete", "Toggle", "Update"} => NextID' = NextID
        /\ SortList(tl).NextID = NextID
        /\ issued' = [k \in 1..Len(issued') |-> k]
        /\ NextID' = Len(issued') + 1 ]_vars

\* Two items were created and both deleted.
C12_Witness ==
    /\ last.op = "Delete"
    /\ issued = <<1, 2>>
    /\ Todos = <<>>
    /\ NextID = 3

(* C13: ids are not used again after a restart: after Adds and Deletes whose
   Saves succeeded, a store opened again on the same path, once it has read
   the file, gives the next Add an id above every id ever given for that
   file, also when every item was deleted before the restart. *)
C13_NoReuseAfterRestart ==
    [][ /\ \A title \in Titles :
              (last.op = "Load" /\ last'.op = "Add" /\ SavedAdd(title))
              => ( /\ NewItem(NextID, title)
                   /\ \A k \in DOMAIN issued : issued[k] < NextID )
        /\ (last'.op = "Load" /\ Reopen) => NextID' = NextID ]_vars

\* The one item was deleted, the store was opened again, and Add gave id 2.
C13_Witness ==
    /\ last.op = "Add"
    /\ snap.tl.Todos = <<>>
    /\ snap.tl.NextID = 2
    /\ snap.dir.target # NoFile
    /\ issued = <<1, 2>>
    /\ Ids(Todos) = {2}

(* C14: opening a store on a path where no file exists gives no error and an
   empty store with NextID = 1, and creates and writes no file. *)
C14_NoFileOpensEmpty ==
    [][(dir.target = NoFile /\ last'.op = "Load" /\ Open /\ last'.err # "read")
       => ( /\ last'.err = "none"
            /\ Todos' = <<>>
            /\ NextID' = 1
            /\ dir' = dir )]_vars

\* A store was opened where there is no file, beside an old backup.
C14_Witness ==
    /\ last = Call("Load", "none")
    /\ dir = FS(NoFile, OldFile, NoTmp)
    /\ Todos = <<>>
    /\ NextID = 1

(* C15: when a load fails because the content does not parse, be it a syntax
   error or a field of the wrong type, the store of that load is empty: the
   store NewTodoList made has no items and NextID = 1, whether the backup was
   written or not. *)
C15_FailedLoadLeavesEmpty == LoadedUnparseable => (Todos = <<>> /\ NextID = 1)

\* The bytes that did not parse are at the path or in the backup.
OnDisk(data) == dir.target = data \/ dir.corrupted = data

(* C16: input that did not parse is never thrown away: once the file at the
   path has failed to parse, after any loads and any mutations that save
   over the path, also when the backup could not be written, the bytes that
   did not parse are on disk at path or at path + ".corrupted". *)
C16_NeverDiscarded == Opened => \E data \in BrokenSamples : OnDisk(data)

\* What NewTodoList hands to its caller: the list and nothing else; the
\* error of Load is not part of it.
NewTodoListReturns == tl

\* C17: when reading the file failed for a reason other than the file not
\* existing, the caller of NewTodoList gets an outcome that differs from the
\* outcome of opening a path with no file, which is the fresh store.
C17_ReadFailureSurfaced ==
    last = Call("Load", "read") => NewTodoListReturns # FreshList

\* C18: for every index, negative, in range or beyond the end,
\* Insert(index, title) leaves the Todos, their fields, NextID and, when the
\* save succeeded, the file exactly as Add(title) at the same instant leaves
\* them: the new item is first and the index has no effect.
C18_InsertIsAdd ==
    [][\A title \in Titles :
          (last'.op = "Insert" /\ \E index \in Indices : Insert(index, title)) =>
              LET added == SortList(AddList(tl, title, Now)) IN
                  /\ tl' = added
                  /\ NewItem(NextID, title)
                  /\ Head(Todos').ID = NextID
                  /\ last'.err = "none" => dir'.target = Marshal(added)]_vars

\* An Insert into a store that already held an item has put the new one first
\* and saved.
C18_Witness ==
    /\ last = Call("Insert", "none")
    /\ Len(Todos) = 2
    /\ Head(Todos).ID = 2
    /\ Todos[2].ID = 1
    /\ FileHolds(dir.target, Todos, NextID)

\* The last call ended in a Save that succeeded, and the file decodes to the
\* store it left.
SavedAfter(op) ==
    (last'.op = op /\ last'.err = "none") => FileHolds(dir'.target, Todos', NextID')

\* C19: for 0 <= index < len(Todos), Delete(index) removes exactly the item
\* that was at index: the items before it and the items after it are kept
\* with their fields and in their order, NextID is as before, and the store
\* is then saved.
C19_Delete ==
    [][ /\ \A index \in Indices :
              (last'.op = "Delete" /\ InRange(index, Todos) /\ Delete(index)) =>
                  /\ Len(Todos') = Len(Todos) - 1
                  /\ \A i \in 1..index : Todos'[i] = Todos[i]
                  /\ \A i \in (index + 1)..Len(Todos') : Todos'[i] = Todos[i + 1]
                  /\ NextID' = NextID
                  /\ last'.err \in {"none", "failed"}
        /\ SavedAfter("Delete") ]_vars

\* The first of two items, a completed one above an incomplete one, was
\* deleted; the other is left and the file holds it.
C19_Witness ==
    /\ last = Call("Delete", "none")
    /\ snap.tl.Todos = <<Todo(2, WalkDog, TRUE, Time(1, FALSE)),
                         Todo(1, BuyMilk, FALSE, Time(0, FALSE))>>
    /\ Todos = <<Todo(1, BuyMilk, FALSE, Time(0, FALSE))>>
    /\ NextID = 5
    /\ FileHolds(dir.target, Todos, NextID)

\* C20: for 0 <= index < len(Todos), Update(index, title) changes only the
\* title of the item at index: its id, completed flag and createdAt, every
\* other item, the order and NextID are as before (nothing is sorted), and
\* the store is then saved.
C20_Update ==
    [][ /\ \A index \in Indices, title \in EditTitles :
              (last'.op = "Update" /\ InRange(index, Todos) /\ Update(index, title)) =>
                  /\ Todos' = [Todos EXCEPT ![index + 1].Title = title]
                  /\ NextID' = NextID
                  /\ last'.err \in {"none", "failed"}
        /\ SavedAfter("Update") ]_vars

\* A completed item above an incomplete one; the incomplete one got a new
\* title and the two are where they were.
C20_Witness ==
    /\ last = Call("Update", "none")
    /\ Todos = <<Todo(2, WalkDog, TRUE, Time(1, FALSE)),
                 Todo(1, WalkDog, FALSE, Time(0, FALSE))>>
    /\ NextID = 5
    /\ FileHolds(dir.target, Todos, NextID)

\* The results Add, Insert, Delete, Toggle, Update and Sort hand to their
\* caller: none. Each calls Save, or Sort, as a statement.
MutationResults == <<>>

\* C21: a mutation whose Save failed reports the failure: the error is among
\* the results the caller gets.
C21_ErrorsReturned ==
    (last.op \in Mutations /\ last.err = "failed") =>
        \E k \in DOMAIN MutationResults : MutationResults[k] = last.err

\* What a mutation whose Save was reached has done to the list, told from the
\* list before and the list after.
Kept(op) ==
    CASE op \in {"Add", "Insert"} ->
            /\ Len(Todos') = Len(Todos) + 1
            /\ Ids(Todos') = Ids(Todos) \cup {NextID}
            /\ NextID' = NextID + 1
      [] op = "Delete" ->
            /\ Len(Todos') = Len(Todos) - 1
            /\ NextID' = NextID
      [] op = "Toggle" ->
            /\ Len(SelectSeq(Todos', IsDone)) # Len(SelectSeq(Todos, IsDone))
            /\ NextID' = NextID
      [] op = "Update" ->
            /\ \E k \in DOMAIN Todos, title \in Titles :
                  Todos' = [Todos EXCEPT ![k].Title = title]
            /\ NextID' = NextID

\* The store in memory is not what the file holds: the file is not the bytes
\* that Save writes for the list.
Diverged(data, list) == data # Marshal(list)

\* C22, as claimed: when the Save inside a mutation fails, the mutation stays
\* in memory, the file at the path is as before, and the store in memory
\* differs from the file after the call.
C22_FailedSaveDiverges ==
    [][(last'.op \in Mutations /\ last'.err = "failed") =>
          /\ Kept(last'.op)
          /\ dir'.target = dir.target
          /\ Diverged(dir'.target, TodoList(Todos', TodosNil', NextID'))]_vars

\* C22, amended: when the Save inside a mutation fails, the mutation stays in
\* memory and the file at the path is as before; the two differ after the
\* call when they agreed before it and the mutation changed the list.
C22_FailedSaveKeepsMutation ==
    [][(last'.op \in Mutations /\ last'.err = "failed") =>
          /\ Kept(last'.op)
          /\ dir'.target = dir.target
          /\ (StoredAll(Todos') # StoredAll(Todos) /\ ~Diverged(dir.target, tl))
                => Diverged(dir'.target, TodoList(Todos', TodosNil', NextID'))]_vars

\* A Delete whose Save failed: the list is empty and the file still holds the
\* item.
C22_Witness ==
    /\ last = Call("Delete", "failed")
    /\ Todos = <<>>
    /\ FileHolds(dir.target, <<Todo(1, BuyMilk, FALSE, Time(0, TRUE))>>, 2)

\* C26: after an in-range mutation of a store that was loaded from a file
\* with its items in any order, Delete and Update included, no completed
\* item precedes an incomplete one.
C26_PartitionedAfterAnyLoad ==
    (last.op \in Mutations /\ last.err \in {"none", "failed"}) => Partitioned(Todos)

\* The instant at which the item with this id was created: the ids are handed
\* out in order, one at each tick of the clock.
CreatedAtOf(id) == Time((CHOOSE n \in DOMAIN issued : issued[n] = id) - 1, TRUE)

\* C28: across any sequence of Add, Insert, Delete, Toggle and Update, with
\* the Sort inside them, every item still present has an id that was handed
\* out and the createdAt it got when it was created with that id.
C28_IdAndCreatedAtFixed ==
    \A k \in DOMAIN Todos :
        /\ \E n \in DOMAIN issued : issued[n] = Todos[k].ID
        /\ Todos[k].CreatedAt = CreatedAtOf(Todos[k].ID)

\* The older of two items was renamed and toggled, the newer deleted: the
\* one left has its id and its instant of creation.
C28_Witness ==
    /\ last.op = "Delete"
    /\ issued = <<1, 2>>
    /\ Len(Todos) = 1
    /\ Todos[1].ID = 1
    /\ Todos[1].Title = WalkDog
    /\ Todos[1].Completed
    /\ Todos[1].CreatedAt = Time(0, TRUE)

\* C27: a mutation that was in range, an Add or an Insert has called Save
\* exactly once, through Sort for Add, Insert and Toggle and directly for
\* Delete and Update; a mutation that was out of range has not called it.
C27_OneSave ==
    last.op \in Mutations =>
        saves = (IF last.err \in {"none", "failed"} THEN 1 ELSE 0)

\* A Toggle has moved the older item below the newer one and saved once.
C27_Witness ==
    /\ last = Call("Toggle", "none")
    /\ saves = 1
    /\ Len(Todos) = 2
    /\ Todos[2].Completed
    /\ FileHolds(dir.target, Todos, NextID)

\* C23: Insert returns normally for every store and every index, negative
\* ones included, in the store of models.go as in the todo package: no call
\* of Insert ends in a panic.
C23_InsertNeverPanics == last # Call("Insert", "panic")

\* C29: in the store of models.go, Insert(index, title) with
\* 0 <= index < len(Todos) puts the new item at position index, moves the
\* items that were at positions >= index down by one, and loses or doubles
\* no item.
C29_InsertAtIndex ==
    [][\A index \in Indices, title \in EditTitles :
          (InRange(index, Todos) /\ ModelsInsert(index, title)) =>
              /\ Len(Todos') = Len(Todos) + 1
              /\ At(Todos', index).ID = NextID
              /\ \A i \in 1..index : Todos'[i] = Todos[i]
              /\ \A i \in (index + 1)..Len(Todos) : Todos'[i + 1] = Todos[i]]_vars

\* The Save of the first store, or of the second, has just renamed its temp
\* file to the path.
Renamed == pc = "closed" /\ pc' = "idle"
PeerRenamed == peer.pc = "closed" /\ peer'.pc = "idle"

\* Both Saves have returned nil.
BothSaved == pc = "idle" /\ peer.pc = "idle" /\ last = Call("Save", "none") /\ peer.err = "none"

(* C24: two stores on one path save at the same time, their steps in any
   order. Each has its own temp file; a rename puts the whole encoding of
   the renaming store at the path and nothing else changes the file there, so
   that once both Saves have returned nil the file is the encoding of the
   store that renamed last, never a mixture; and when both have returned, no
   temp file is left. *)
C24_LastRenameWins ==
    [][ /\ Renamed => dir'.target = Marshal(tl)
        /\ PeerRenamed => dir'.target = Marshal(peer.tl)
        /\ ~(Renamed \/ PeerRenamed) => dir'.target = dir.target
        /\ (pc' # "idle" /\ peer'.pc # "idle") => tmpPath' # peer'.tmpPath
        /\ (pc' = "idle" /\ peer'.pc = "idle") => dir'.tmp = NoTmp
        /\ BothSaved' => dir'.target \in {Marshal(tl'), Marshal(peer'.tl)} ]_vars

\* Both Saves returned nil. When the first store began its Save the second
\* had its temp file and the old file was at the path; the second renamed
\* during the Save of the first, the first renamed last, and its list is at
\* the path.
C24_Witness ==
    /\ BothSaved
    /\ snap.dir.target = OldFile
    /\ snap.dir.tmp # NoTmp
    /\ dir.target = Marshal(tl)
    /\ dir.target # Marshal(peer.tl)
    /\ dir.tmp = NoTmp


----------------------------------------------------------------------------
(* C25: archiving and unarchiving are plain moves that lose no data: after
   archiveCurrentFile or unarchiveFile, the content of every list file that
   was in the active or the archive directory before it is still, unmodified,
   in one of the two. *)
Folders == {"todo", "archive"}

\* The step is the "y" that answers the archive prompt: archiveCurrentFile.
Archived ==
    /\ last'.op = "y"
    /\ model.Mode = "EditMode"
    /\ model.EditingIndex = -3

\* The step is the "enter" on a file of the archive view: unarchiveFile.
Unarchived ==
    /\ last'.op = "enter"
    /\ model.Mode = "NormalMode"
    /\ model.ActivePanel = "FilePanel"
    /\ model.ShowingArchive
    /\ model.FileCursor < Len(model.ArchivedFiles)

C25_MovesLoseNothing ==
    [][(Archived \/ Unarchived)
       => \A d \in Folders, n \in FileNames :
             disk[d][n] # NoFile
             => \E e \in Folders : disk'[e][n] = disk[d][n]]_vars


----------------------------------------------------------------------------
(* C30: in the UI, pressing Enter in edit mode with an empty input, for a new
   todo, for the title of a todo or for the name of a new file, changes
   nothing in the store, creates no file, calls no Save, and leaves the UI in
   edit mode. *)
\* The step is an "enter" into an input that is empty.
EnterOnEmpty ==
    /\ last'.op = "enter"
    /\ model.Mode = "EditMode"
    /\ model.EditingIndex >= -2
    /\ model.InputText = <<>>

C30_EmptyInputBlocked ==
    [][EnterOnEmpty
       => ( /\ Todos' = Todos
            /\ TodosNil' = TodosNil
            /\ NextID' = NextID
            /\ disk' = disk
            /\ saves' = 0
            /\ model'.Mode = "EditMode"
            /\ model'.EditingIndex = model.EditingIndex )]_vars

\* The title of the one todo was erased and Enter was pressed: the todo
\* still has its title, in the list and in the file.
C30_Witness ==
    /\ last = Call("enter", "nosave")
    /\ model.Mode = "EditMode"
    /\ model.EditingIndex = 0
    /\ model.InputText = <<>>
    /\ model.StatusMessage = "Cannot be empty"
    /\ Len(Todos) = 1
    /\ Todos[1].Title = BuyMilk
    /\ FileHolds(FileAt(disk, model.path), Todos, NextID)


----------------------------------------------------------------------------
(* C33: Sort is idempotent: for any list, a second Sort leaves Todos as the
   first Sort left it, and Sort leaves a list that is already partitioned as
   it is. *)
C33_SortIdempotent ==
    [][(last'.op = "Sort" /\ Sort)
       => ( /\ SortList(TodoList(Todos', TodosNil', NextID')).Todos = Todos'
            /\ Partitioned(Todos) => Todos' = Todos )]_vars

\* Sort was called on a list of an incomplete item and two completed items
\* behind it, and the list is as it was loaded.
C33_Witness ==
    /\ last.op = "Sort"
    /\ Len(Todos) = 3
    /\ ~Todos[1].Completed
    /\ Todos[2].Completed
    /\ Todos[3].Completed
    /\ Todos[2] # Todos[3]
    /\ Todos = snap.tl.Todos


----------------------------------------------------------------------------
(* C34: on a partitioned list, Toggle puts the toggled item at the boundary
   of the two blocks: toggled to completed it is the first item of the
   completed block, toggled to incomplete it is the last item of the
   incomplete block; the other items keep their order. *)
\* The list without the item at position k.
Without(todos, k) == SubSeq(todos, 1, k - 1) \o SubSeq(todos, k + 1, Len(todos))

\* The item at index of before, toggled, is at the boundary of after, and the
\* rest of after is the rest of before.
AtBoundary(before, index, after) ==
    LET toggled == [At(before, index) EXCEPT !.Completed = ~@]
        open == Len(SelectSeq(after, IsOpen))
        place == IF toggled.Completed THEN open + 1 ELSE open
    IN  /\ Partitioned(after)
        /\ place \in DOMAIN after
        /\ after[place] = toggled
        /\ Without(after, place) = Without(before, index + 1)

C34_ToggleAtBoundary ==
    [][\A index \in Indices :
          (last'.op = "Toggle" /\ Partitioned(Todos) /\ InRange(index, Todos)
             /\ Toggle(index))
          => AtBoundary(Todos, index, Todos')]_vars

\* The loaded list was an incomplete item and a completed one; the completed
\* one was toggled and is the last of the incomplete block.
C34_Witness ==
    /\ last.op = "Toggle"
    /\ Len(Todos) = 2
    /\ ~Todos[1].Completed
    /\ ~Todos[2].Completed
    /\ Todos[1].ID # Todos[2].ID
    /\ snap.tl.Todos = <<Todos[1], [Todos[2] EXCEPT !.Completed = TRUE]>>


----------------------------------------------------------------------------
(* C35: a failed Save loses nothing for good: after a mutation whose Save
   failed, the next mutation whose Save succeeds leaves the file with the
   whole list in memory, the change whose Save had failed included. *)
\* The step is a mutation whose Save succeeds, the first after a failed one.
SavedAfterFailure ==
    /\ fails > 0
    /\ last'.op \in Mutations
    /\ last'.err = "none"

\* The item that the failed Add or Insert just before had made.
Unsaved == issued[Len(issued)]

C35_FailedChangeSavedLater ==
    [][SavedAfterFailure
       => ( /\ dir'.target = Marshal(TodoList(Todos', TodosNil', NextID'))
            /\ Kept(last'.op)
            /\ (last.op \in {"Add", "Insert"} /\ last.err = "failed"
                  /\ last'.op \in {"Toggle", "Update"})
               => Unsaved \in Ids(Todos') )]_vars

\* The Save of the second Add failed, as the note of it tells: the file had
\* the first item only. A Toggle was saved since, and the file has both.
C35_Witness ==
    /\ last = Call("Toggle", "none")
    /\ Len(snap.tl.Todos) = 2
    /\ FileHolds(snap.dir.target, Tail(snap.tl.Todos), 2)
    /\ Len(Todos) = 2
    /\ Ids(Todos) = {1, 2}
    /\ FileHolds(dir.target, Todos, NextID)


\* The key is one that toggles, pressed in normal mode in the todo panel with
\* the cursor on an item: toggleTodoWithArchivePrompt runs.
Toggles ==
    /\ model.Mode = "NormalMode"
    /\ model.ActivePanel = "TodoPanel"
    /\ model.TodoCursor < Len(Todos)
    /\ last'.op \in {"x", " "}

\* The archive prompt is up.
ArchivePrompt(mdl) == mdl.Mode = "EditMode" /\ mdl.EditingIndex = -3

\* C31: after a toggle from the todo panel ("x" or " ") the archive prompt
\* is up (edit mode, EditingIndex = -3) exactly when the list is then
\* non-empty and every item of it is completed; otherwise the mode stays
\* normal.
C31_PromptIffAllCompleted ==
    [][Toggles =>
         IF Len(Todos') > 0 /\ \A k \in DOMAIN Todos' : Todos'[k].Completed
         THEN ArchivePrompt(model')
         ELSE model'.Mode = "NormalMode"]_vars

\* The one item of the list was toggled to completed, and the prompt is up;
\* and the toggle was saved.
C31_Witness ==
    /\ last = Call("x", "none")
    /\ ArchivePrompt(model)
    /\ Len(Todos) = 1
    /\ Todos[1].Completed
    /\ FileAt(disk, model.path) = Marshal(tl)


\* "y" is pressed at the prompt of the file panel's "d" or of "A":
\* deleteCurrentFile or archiveCurrentFile runs.
Confirmed ==
    /\ model.Mode = "EditMode"
    /\ model.EditingIndex \in {-3, -4}
    /\ last'.op = "y"

\* The Model has an active list: Files is not empty, CurrentFile is one of
\* its entries, and the file is in the todo directory.
ActiveList(mdl, dk) ==
    /\ Len(mdl.Files) > 0
    /\ \E i \in DOMAIN mdl.Files : mdl.Files[i] = mdl.CurrentFile
    /\ dk.todo[mdl.CurrentFile] # NoFile

\* C32: after a confirmed delete or archive of a file there is an active
\* list: when no active file remains, default.json is created on disk and
\* becomes CurrentFile, so Files is not empty and CurrentFile names an entry
\* of it.
C32_AlwaysActiveList == [][Confirmed => ActiveList(model', disk')]_vars

\* The same, when the Save of the new default.json does not fail.
ActiveListUnlessSaveFails ==
    [][(Confirmed /\ last'.err # "failed") => ActiveList(model', disk')]_vars


\* C36: whenever the todo panel is active, the TodoList that is shown and
\* changed there is the one bound to TodoDir/CurrentFile: this holds after
\* any sequence of keys and mouse clicks, previews included.
C36_TodoPanelShowsCurrentFile ==
    (model.Mode = "NormalMode" /\ model.ActivePanel = "TodoPanel")
        => model.path = Path("todo", model.CurrentFile)

\* The same in the file panel only when nothing is previewed there; what
\* holds without exception is that every key that opens, makes, deletes,
\* archives or unarchives a file binds the list to TodoDir/CurrentFile.
BoundAfterFileOps ==
    [][(last'.op \in {"enter", " ", "y"} /\ model.ActivePanel = "FilePanel"
          /\ model'.CurrentFile # model.CurrentFile)
       => model'.path = Path("todo", model'.CurrentFile)]_vars


\* C37: after any sequence of keys and mouse clicks TodoCursor is a position
\* of the list: 0 <= TodoCursor <= max(0, len(Todos) - 1), also after the
\* last item was deleted and after a file was opened, previewed, archived or
\* unarchived.
C37_TodoCursorInList ==
    /\ 0 <= model.TodoCursor
    /\ model.TodoCursor <= IF Len(Todos) > 0 THEN Len(Todos) - 1 ELSE 0

\* The same for every event but the unarchive of a file: the keys of the todo
\* panel, clicks, previews, open, new file, delete and archive leave the
\* cursor in the list.
CursorInListButUnarchive ==
    [][(C37_TodoCursorInList /\ ~(model.ShowingArchive /\ last'.op \in {"enter", " "}))
       => (/\ 0 <= model'.TodoCursor
           /\ model'.TodoCursor <= IF Len(Todos') > 0 THEN Len(Todos') - 1 ELSE 0)]_vars


\* The file list that is shown.
Shown(mdl) == IF mdl.ShowingArchive THEN mdl.ArchivedFiles ELSE mdl.Files

\* C38: after any sequence of keys and mouse clicks FileCursor is a position
\* of the file list that is shown: below len(ArchivedFiles) in the archive
\* view and below len(Files) otherwise, or 0 when that list is empty.
C38_FileCursorInShownList ==
    /\ 0 <= model.FileCursor
    /\ model.FileCursor < Len(Shown(model)) \/ model.FileCursor = 0

\* The same for the keys alone: no key moves the cursor out of the list that
\* is shown.
KeysKeepFileCursor ==
    [][(C38_FileCursorInShownList /\ last'.op # "click")
       => (/\ 0 <= model'.FileCursor
           /\ model'.FileCursor < Len(Shown(model')) \/ model'.FileCursor = 0)]_vars


\* "y" is pressed at a prompt that "d" or "A" opened in the file panel, with
\* the file cursor on a file: the cursor has not moved since the prompt was
\* opened, as edit mode takes no click and no key moves it.
ConfirmedInFilePanel ==
    /\ Confirmed
    /\ model.ActivePanel = "FilePanel"
    /\ model.FileCursor < Len(model.Files)

\* The step takes the file of that name out of the todo directory, or writes
\* it anew as the one file that is left, and leaves every other file of the
\* directory as it was.
OnlyGone(name) ==
    /\ disk'.todo[name] = NoFile \/ model'.Files = <<name>>
    /\ \A other \in FileNames \ {name} :
          disk.todo[other] # NoFile => disk'.todo[other] = disk.todo[other]

\* C39: when a delete (d, then y) or an archive (A, then y) of the file panel
\* is confirmed, the file that is removed or moved is the one the file cursor
\* was on when the prompt was opened, Files[FileCursor], and no other file is
\* removed or moved.
C39_ActsOnFileAtCursor ==
    [][ConfirmedInFilePanel => OnlyGone(model.Files[model.FileCursor + 1])]_vars

\* What the code does: the file that is removed or moved is CurrentFile.
ActsOnCurrentFile ==
    [][ConfirmedInFilePanel => OnlyGone(model.CurrentFile)]_vars

====
